---- MODULE Spec2Model ----
(***************************************************************************)
(* Process control of `verdi work` (kill / pause / play batches over a     *)
(* blocking control panel) and the process state machine the commands act  *)
(* on.                                                                     *)
(*                                                                         *)
(* Spec      : one batch of work_kill / work_pause / work_play over a list *)
(*             of target calculations, the broadcast transport between the *)
(*             caller and the remote subscribers, and the processes that   *)
(*             change state while the batch runs.                          *)
(* FairSpec  : Spec with the fairness the blocking call guarantees (the    *)
(*             caller's own steps and the timeout are always taken).       *)
(* SpecProc  : the process state machine alone, under arbitrary requests.  *)
(* SpecFn    : runs of process functions on new nodes.                     *)
(* SpecSteps : the legacy Workflow of orm/workflow.py being built by       *)
(*             get_step, next, attach_calculation and attach_workflow.     *)
(* SpecTree  : SpecSteps with Workflow.kill, the daemon that sets the      *)
(*             status of a step, and the runners of the calculations.      *)
(* SpecReport: workflows that attach sub-workflows and read, write and     *)
(*             clear their reports.                                        *)
(* SpecKill  : workflows that are built, report and are killed.            *)
(* SpecListing, SpecWorkReport : get_subtree and work_report of            *)
(*             cmd_work.py on a database of CALL links and log entries.    *)
(* SpecWatch : work_watch of cmd_work.py.                                  *)
(* SpecHash, SpecCalcJob : the hash of a process function invocation and   *)
(*             the state attribute of a CalcJobNode.                       *)
(***************************************************************************)
EXTENDS Integers, Sequences, FiniteSets, TLC

\* ---- bounds of the model ------------------------------------------------
MaxTargets == 2
MaxProcs == 3
MaxExit == 1
MaxWf == 2
MaxCalcs == 1
MaxOps == 4
MaxNodes == 3
MaxLinks == 3
MaxFns == 2
MaxVal == 2
MaxJobs == 2

ExitCodes == 0..MaxExit
NoExit == -1

\* ---- process state machine ----------------------------------------------
ProcessStates == {"CREATED", "WAITING", "RUNNING", "FINISHED", "EXCEPTED", "KILLED"}
TerminalStates == {"FINISHED", "EXCEPTED", "KILLED"}

\* The three commands of cmd_work.py and the requests a process receives.
CMDS == {"kill", "pause", "play"}
Requests == {"start", "suspend", "resume", "finish", "except", "kill", "pause", "play"}

VARIABLES
    proc,        \* pk -> [state, exit_status]: the process records
    lastres,     \* result of the last local request to a process state machine
    cmd,         \* which command this batch is: kill, pause or play
    targets,     \* the `calculations` argument: a sequence of pks
    idx,         \* position of the for loop in targets (1-based)
    pc,          \* "start", "loop", "wait" (blocked in the call), "done"
    how,         \* how the batch ended: "", "normal", "SystemExit", "KeyboardInterrupt"
    transport,   \* "none", "open", "disconnected"
    opens,       \* number of times the transport was opened
    disconnects, \* number of disconnect() calls
    curCid,      \* correlation id of the call the caller is blocked in
    nextCid,     \* next fresh correlation id
    cmds,        \* commands published and not yet received by a subscriber
    replies,     \* replies sent by subscribers and not yet consumed
    handled,     \* every reply a subscriber has sent, late ones included
    checked,     \* index -> what the local is_terminated check saw
    sent,        \* index -> number of commands published for that target
    cids,        \* index -> correlation id of that target's command (0: none)
    call,        \* index -> "none", "pending", or the result of the call
    out,         \* index -> the outcome lines echoed for that target
    fn,          \* pk -> the run of a process function on that node
    wstatus,     \* workflow -> status of its DbWorkflow record
    steps,       \* (workflow, name) -> the DbWorkflowStep rows of that name
    ret,         \* the exception the last Workflow method call raised, or "none"
    klog,        \* the writes of the last Workflow.kill, in the order made
    nops,        \* number of calls made on the workflows and their calculations
    report,      \* workflow -> the report text of its DbWorkflow record
    rlog,        \* the last call of a report method and what it returned
    hashed,      \* the nodes of the process function invocations that were hashed
    listing,     \* the call links of work_report and what get_subtree made of them
    calcjob,     \* the state attribute of a CalcJobNode and the last get_state
    reporting    \* a run of work_report: its arguments, the database, what it echoed

vars == <<proc, lastres, cmd, targets, idx, pc, how, transport, opens, disconnects,
          curCid, nextCid, cmds, replies, handled, checked, sent, cids, call, out,
          fn, wstatus, steps, ret, klog, nops, report, rlog, hashed, listing, calcjob,
          reporting>>

leafVars == <<fn, hashed, listing, calcjob, reporting>>
treeVars == <<wstatus, steps, ret, klog, nops, report, rlog>>

procVars == <<proc, lastres>>
netVars == <<cmds, replies, handled>>
batchVars == <<cmd, targets, idx, pc, how, transport, opens, disconnects, curCid,
               nextCid, checked, sent, cids, call, out>>

is_terminated(p) == p.state \in TerminalStates

\* The other state predicates of a process node.
is_finished(p) == p.state = "FINISHED"
is_excepted(p) == p.state = "EXCEPTED"
is_killed(p) == p.state = "KILLED"
is_finished_ok(p) == is_finished(p) /\ p.exit_status = 0
is_failed(p) == is_finished(p) /\ p.exit_status # 0

\* A state machine that lets kill act on a process that has already ended.
TransitionKillsTerminal(p, req, n) ==
    CASE req = "start" /\ p.state = "CREATED" ->
            [rec |-> [p EXCEPT !.state = "RUNNING"], res |-> "ok"]
      [] req = "suspend" /\ p.state = "RUNNING" ->
            [rec |-> [p EXCEPT !.state = "WAITING"], res |-> "ok"]
      [] req = "resume" /\ p.state = "WAITING" ->
            [rec |-> [p EXCEPT !.state = "RUNNING"], res |-> "ok"]
      [] req = "finish" /\ p.state = "RUNNING" ->
            [rec |-> [state |-> "FINISHED", exit_status |-> n], res |-> "ok"]
      [] req = "except" /\ p.state = "RUNNING" ->
            [rec |-> [p EXCEPT !.state = "EXCEPTED"], res |-> "ok"]
      [] req = "kill" /\ p.state \in TerminalStates \cup {"RUNNING"} ->
            [rec |-> [p EXCEPT !.state = "KILLED"], res |-> "ok"]
      [] req \in {"pause", "play"} /\ ~is_terminated(p) ->
            [rec |-> p, res |-> "ok"]
      [] OTHER -> [rec |-> p, res |-> "InvalidTransition"]

\* The transition a request makes from a state: the new record, or the same
\* record with the error InvalidTransition.
Transition(p, req, n) ==
    CASE req = "start" /\ p.state = "CREATED" ->
            [rec |-> [p EXCEPT !.state = "RUNNING"], res |-> "ok"]
      [] req = "suspend" /\ p.state = "RUNNING" ->
            [rec |-> [p EXCEPT !.state = "WAITING"], res |-> "ok"]
      [] req = "resume" /\ p.state = "WAITING" ->
            [rec |-> [p EXCEPT !.state = "RUNNING"], res |-> "ok"]
      [] req = "finish" /\ p.state = "RUNNING" ->
            [rec |-> [state |-> "FINISHED", exit_status |-> n], res |-> "ok"]
      [] req = "except" /\ p.state = "RUNNING" ->
            [rec |-> [p EXCEPT !.state = "EXCEPTED"], res |-> "ok"]
      [] req = "kill" /\ p.state = "RUNNING" ->
            [rec |-> [p EXCEPT !.state = "KILLED"], res |-> "ok"]
      [] req \in {"pause", "play"} /\ ~is_terminated(p) ->
            [rec |-> p, res |-> "ok"]
      [] OTHER -> [rec |-> p, res |-> "InvalidTransition"]

\* A request made to the state machine of process pk.
ProcRequest(pk, req, n) ==
    /\ LET t == Transition(proc[pk], req, n)
       IN  /\ proc' = [proc EXCEPT ![pk] = t.rec]
           /\ lastres' = t.res
    /\ UNCHANGED <<netVars, batchVars, leafVars, treeVars>>

\* ---- the remote side: subscribers and the transport ------------------------

\* A subscriber that acknowledges every command, whatever its result.
ReplyOutcomeAlwaysAck(p, t) == "ACK"

\* The reply a subscriber sends for a command's result on its process.
ReplyOutcome(p, t) ==
    IF t.res = "ok" THEN "ACK"
    ELSE IF is_terminated(p) THEN "REJECT"
    ELSE "ERROR"

\* A subscriber of the target process receives command c, applies it to the
\* process and sends the reply with the command's correlation id.
Deliver(c) ==
    /\ c \in cmds
    /\ LET t == Transition(proc[c.target_pk], c.kind, NoExit)
       IN  /\ proc' = [proc EXCEPT ![c.target_pk] = t.rec]
           /\ LET r == [correlation_id |-> c.correlation_id,
                         outcome |-> ReplyOutcome(proc[c.target_pk], t)]
              IN  /\ replies' = replies \cup {r}
                  /\ handled' = handled \cup {r}
    /\ cmds' = cmds \ {c}
    /\ UNCHANGED <<lastres, batchVars, leafVars, treeVars>>

\* ---- the blocking control panel --------------------------------------------

\* new_blocking_control_panel().__enter__: opens the owned transport.
EnterPanel(t) == "open"

\* new_blocking_control_panel().__exit__: disconnects the owned transport.
ExitPanel(t) == "disconnected"

\* The command a call publishes: its kind, its target and a fresh correlation id.
NewCommand(kind, pk, cid) == [kind |-> kind, target_pk |-> pk, correlation_id |-> cid]

\* Which reply the blocked call takes as its own.
ReplyMatchesAny(r, cid) == TRUE

ReplyMatches(r, cid) == r.correlation_id = cid

\* The result of the call for the reply it took.
ResultOf(outcome) ==
    CASE outcome = "ACK" -> "true"
      [] outcome = "REJECT" -> "false"
      [] outcome = "ERROR" -> "RemoteException"

\* The result of the call when the timeout elapses without its reply.
TimeoutResultRemote == "RemoteException"

TimeoutResult == "DeliveryFailed"

CallResults == {"true", "false", "RemoteException", "DeliveryFailed"}

\* ---- cmd_work.py: work_kill, work_pause, work_play ----------------------------

\* The branch the loop body takes for a target: the local is_terminated check.
LoopBranchNoCheck(p) == "send"

LoopBranch(p) == IF is_terminated(p) THEN "skip" ELSE "send"

\* The echo function each command uses for the result of its call.
EchoForAllCritical(c, res) ==
    IF res = "true" THEN "echo_success" ELSE "echo_critical"

EchoFor(c, res) ==
    CASE res = "true" -> "echo_success"
      [] res # "true" /\ c \in {"kill", "pause"} -> "echo_error"
      [] res # "true" /\ c = "play" -> "echo_critical"

\* aiida.cmdline.utils.echo: echo_critical prints its line and then calls
\* sys.exit, so SystemExit leaves the command; echo_success and echo_error
\* only print.
EchoExits(echo) == echo = "echo_critical"

\* The outcome a line stands for.
OutcomeOf(res) == IF res = "true" THEN "succeeded" ELSE "failed"

Line(echo, outcome) == [echo |-> echo, outcome |-> outcome]

AlreadyTerminatedLine == Line("echo_error", "already terminated")

\* Leaving the `with` block, by the end of the loop or by an exception:
\* __exit__ runs on every path.
LeaveWithOnlyAtEnd(h) ==
    /\ pc' = "done"
    /\ how' = h
    /\ transport' = IF h = "normal" THEN ExitPanel(transport) ELSE transport
    /\ disconnects' = IF h = "normal" THEN disconnects + 1 ELSE disconnects

LeaveWith(h) ==
    /\ pc' = "done"
    /\ how' = h
    /\ transport' = ExitPanel(transport)
    /\ disconnects' = disconnects + 1

\* `with new_blocking_control_panel() as control_panel:`
Enter ==
    /\ pc = "start"
    /\ transport' = EnterPanel(transport)
    /\ opens' = opens + 1
    /\ pc' = "loop"
    /\ UNCHANGED <<leafVars, treeVars, procVars, netVars, cmd, targets, idx, how, disconnects, curCid,
                   nextCid, checked, sent, cids, call, out>>

\* The for loop is exhausted: the with block ends normally.
LoopEnd ==
    /\ pc = "loop"
    /\ idx > Len(targets)
    /\ LeaveWith("normal")
    /\ UNCHANGED <<leafVars, treeVars, procVars, netVars, cmd, targets, idx, opens, curCid, nextCid,
                   checked, sent, cids, call, out>>

\* The loop body without its `continue`: the line is echoed and the command
\* is sent all the same.
SkipTerminatedNoContinue ==
    /\ pc = "loop"
    /\ idx <= Len(targets)
    /\ LoopBranch(proc[targets[idx]]) = "skip"
    /\ checked' = [checked EXCEPT ![idx] = "terminated"]
    /\ out' = [out EXCEPT ![idx] = Append(@, AlreadyTerminatedLine)]
    /\ cmds' = cmds \cup {NewCommand(cmd, targets[idx], nextCid)}
    /\ curCid' = nextCid
    /\ nextCid' = nextCid + 1
    /\ sent' = [sent EXCEPT ![idx] = @ + 1]
    /\ cids' = [cids EXCEPT ![idx] = nextCid]
    /\ call' = [call EXCEPT ![idx] = "pending"]
    /\ pc' = "wait"
    /\ UNCHANGED <<leafVars, treeVars, procVars, replies, handled, cmd, targets, idx, how, transport,
                   opens, disconnects>>

\* `if calculation.is_terminated: echo_error(...); continue`
SkipTerminated ==
    /\ pc = "loop"
    /\ idx <= Len(targets)
    /\ LoopBranch(proc[targets[idx]]) = "skip"
    /\ checked' = [checked EXCEPT ![idx] = "terminated"]
    /\ out' = [out EXCEPT ![idx] = Append(@, AlreadyTerminatedLine)]
    /\ idx' = idx + 1
    /\ UNCHANGED <<leafVars, treeVars, procVars, netVars, cmd, targets, pc, how, transport, opens,
                   disconnects, curCid, nextCid, sent, cids, call>>

\* A call that publishes and returns at once, without blocking for the reply.
PublishNoWait ==
    /\ pc = "loop"
    /\ idx <= Len(targets)
    /\ LoopBranch(proc[targets[idx]]) = "send"
    /\ checked' = [checked EXCEPT ![idx] =
                      IF is_terminated(proc[targets[idx]]) THEN "terminated" ELSE "active"]
    /\ cmds' = cmds \cup {NewCommand(cmd, targets[idx], nextCid)}
    /\ curCid' = nextCid
    /\ nextCid' = nextCid + 1
    /\ sent' = [sent EXCEPT ![idx] = @ + 1]
    /\ cids' = [cids EXCEPT ![idx] = nextCid]
    /\ call' = [call EXCEPT ![idx] = "pending"]
    /\ idx' = idx + 1
    /\ UNCHANGED <<leafVars, treeVars, procVars, replies, handled, cmd, targets, pc, how, transport,
                   opens, disconnects, out>>

\* control_panel.kill_process(pk) / pause_process / play_process: a fresh
\* correlation id, the command published, the caller blocked for the reply.
Publish ==
    /\ pc = "loop"
    /\ idx <= Len(targets)
    /\ LoopBranch(proc[targets[idx]]) = "send"
    /\ checked' = [checked EXCEPT ![idx] =
                      IF is_terminated(proc[targets[idx]]) THEN "terminated" ELSE "active"]
    /\ cmds' = cmds \cup {NewCommand(cmd, targets[idx], nextCid)}
    /\ curCid' = nextCid
    /\ nextCid' = nextCid + 1
    /\ sent' = [sent EXCEPT ![idx] = @ + 1]
    /\ cids' = [cids EXCEPT ![idx] = nextCid]
    /\ call' = [call EXCEPT ![idx] = "pending"]
    /\ pc' = "wait"
    /\ UNCHANGED <<leafVars, treeVars, procVars, replies, handled, cmd, targets, idx, how, transport,
                   opens, disconnects, out>>

\* The call ended with result res: the line is echoed; echo_critical then
\* exits through the with block, anything else goes on to the next target.
Report(res) ==
    /\ call' = [call EXCEPT ![idx] = res]
    /\ out' = [out EXCEPT ![idx] = Append(@, Line(EchoFor(cmd, res), OutcomeOf(res)))]
    /\ IF EchoExits(EchoFor(cmd, res))
       THEN /\ LeaveWith("SystemExit")
            /\ UNCHANGED idx
       ELSE /\ idx' = idx + 1
            /\ pc' = "loop"
            /\ UNCHANGED <<how, transport, disconnects>>

\* The reply of the blocked call arrives.
Return ==
    /\ pc = "wait"
    /\ \E r \in replies :
          /\ ReplyMatches(r, curCid)
          /\ replies' = replies \ {r}
          /\ Report(ResultOf(r.outcome))
    /\ UNCHANGED <<leafVars, treeVars, procVars, cmds, handled, cmd, targets, opens, curCid, nextCid,
                   checked, sent, cids>>

\* The timeout of the blocked call elapses before its reply arrived.
Timeout ==
    /\ pc = "wait"
    /\ ~ \E r \in replies : ReplyMatches(r, curCid)
    /\ Report(TimeoutResult)
    /\ UNCHANGED <<leafVars, treeVars, procVars, netVars, cmd, targets, opens, curCid, nextCid,
                   checked, sent, cids>>

\* An external interrupt (KeyboardInterrupt) while the batch is running: the
\* exception leaves the with block.
Interrupt ==
    /\ pc \in {"loop", "wait"}
    /\ LeaveWith("KeyboardInterrupt")
    /\ UNCHANGED <<leafVars, treeVars, procVars, netVars, cmd, targets, idx, opens, curCid, nextCid,
                   checked, sent, cids, call, out>>

\* ---- specification ------------------------------------------------------------

Max(S) == CHOOSE x \in S : \A y \in S : y <= x

\* The pks of a batch are names that can be exchanged for one another, so the
\* target lists are taken up to renaming: a pk appears for the first time only
\* after all smaller pks have appeared (<<1,1>>, <<1,2>>, <<1,2,1>>, ...).
Canonical(s) ==
    \A i \in 1..Len(s) : s[i] <= 1 + Max({s[j] : j \in 1..(i - 1)} \cup {0})

TargetLists ==
    {s \in UNION {[1..n -> 1..MaxTargets] : n \in 0..MaxTargets} : Canonical(s)}

Created == [state |-> "CREATED", exit_status |-> NoExit]

InitBatch ==
    /\ idx = 1
    /\ pc = "start"
    /\ how = ""
    /\ transport = "none"
    /\ opens = 0
    /\ disconnects = 0
    /\ curCid = 0
    /\ nextCid = 1
    /\ cmds = {}
    /\ replies = {}
    /\ handled = {}
    /\ checked = [i \in 1..Len(targets) |-> "no"]
    /\ sent = [i \in 1..Len(targets) |-> 0]
    /\ cids = [i \in 1..Len(targets) |-> 0]
    /\ call = [i \in 1..Len(targets) |-> "none"]
    /\ out = [i \in 1..Len(targets) |-> <<>>]

\* Nothing is hashed, no subtree is listed, there is no CalcJobNode and no report
\* is printed.
NoLeaves ==
    /\ hashed = <<>>
    /\ listing = <<>>
    /\ calcjob = <<>>
    /\ reporting = <<>>

\* No process function is run.
NoRuns == fn = <<>> /\ NoLeaves

NoWorkflows ==
    /\ wstatus = <<>>
    /\ steps = <<>>
    /\ ret = "none"
    /\ klog = <<>>
    /\ nops = 0
    /\ report = <<>>
    /\ rlog = <<>>

Init ==
    /\ cmd \in CMDS
    /\ targets \in TargetLists
    /\ proc = [pk \in {targets[i] : i \in 1..Len(targets)} |-> Created]
    /\ lastres = "none"
    /\ InitBatch
    /\ NoRuns
    /\ NoWorkflows

\* The runner of a process drives it along its legal transitions while the
\* batch runs.
RunnerStep ==
    \E pk \in DOMAIN proc, req \in {"start", "suspend", "resume", "finish", "except", "kill"} :
      \E n \in (IF req = "finish" THEN ExitCodes ELSE {NoExit}) :
        /\ Transition(proc[pk], req, n).res = "ok"
        /\ ProcRequest(pk, req, n)

DeliverStep == \E c \in cmds : Deliver(c)

BatchStep == Enter \/ LoopEnd \/ SkipTerminated \/ Publish \/ Return \/ Timeout

Next == BatchStep \/ Interrupt \/ DeliverStep \/ RunnerStep

Spec == Init /\ [][Next]_vars

\* The caller's own steps are always taken, and the timeout of a blocked call
\* always elapses: the call is bounded by its timeout.
FairSpec == Spec /\ WF_vars(BatchStep)

\* The state machine alone: any request, legal or not, in any order.
InitProc ==
    /\ cmd = "kill"
    /\ targets = <<>>
    /\ proc = [pk \in 1..MaxProcs |-> Created]
    /\ lastres = "none"
    /\ InitBatch
    /\ NoRuns
    /\ NoWorkflows

RequestStep ==
    \E pk \in DOMAIN proc, req \in Requests :
      \E n \in (IF req = "finish" THEN ExitCodes ELSE {NoExit}) :
        ProcRequest(pk, req, n)

NextProc == RequestStep

SpecProc == InitProc /\ [][NextProc]_vars

\* ---- process functions ---------------------------------------------------------

\* How the body of a process function can end: it returns its outputs, it
\* returns an ExitCode, it raises, or it returns outputs that are not valid
\* (unstored or of a wrong type).
Endings == {"return", "exit_code", "raise", "invalid_outputs"}

NotRun == [phase |-> "new", ending |-> "none", caller |-> "none"]

\* The request that ends the node of a run, for each ending of the body.
EndRequestAlwaysFinish(ending) == "finish"

EndRequest(ending) ==
    IF ending \in {"return", "exit_code"} THEN "finish" ELSE "except"

\* What the caller of the function gets back.
CallerGets(ending) ==
    IF ending \in {"return", "exit_code"} THEN "result" ELSE "exception"

\* The function is called on a new node: the node starts running.
FnStart(pk) ==
    /\ fn[pk].phase = "new"
    /\ proc[pk].state = "CREATED"
    /\ proc' = [proc EXCEPT ![pk] = Transition(@, "start", NoExit).rec]
    /\ fn' = [fn EXCEPT ![pk].phase = "running"]
    /\ UNCHANGED <<lastres, netVars, batchVars, treeVars, hashed, listing, calcjob, reporting>>

\* The body ends: the node is finished with exit status 0 (normal return) or
\* n (ExitCode(n)), or is excepted and the exception is raised to the caller.
FnEnd(pk, ending, n) ==
    /\ fn[pk].phase = "running"
    /\ proc' = [proc EXCEPT ![pk] = Transition(@, EndRequest(ending), n).rec]
    /\ fn' = [fn EXCEPT ![pk] = [phase |-> "done", ending |-> ending,
                                  caller |-> CallerGets(ending)]]
    /\ UNCHANGED <<lastres, netVars, batchVars, treeVars, hashed, listing, calcjob, reporting>>

InitFn ==
    /\ cmd = "kill"
    /\ targets = <<>>
    /\ proc = [pk \in 1..MaxProcs |-> Created]
    /\ lastres = "none"
    /\ InitBatch
    /\ fn = [pk \in 1..MaxProcs |-> NotRun]
    /\ NoLeaves
    /\ NoWorkflows

FnStartStep == \E pk \in DOMAIN fn : FnStart(pk)

FnEndStep ==
    \E pk \in DOMAIN fn, ending \in Endings :
      \E n \in (CASE ending = "return" -> {0}
                  [] ending = "exit_code" -> ExitCodes
                  [] OTHER -> {NoExit}) :
        FnEnd(pk, ending, n)

NextFn == FnStartStep \/ FnEndStep

\* A process function runs in the thread of its caller, to its end.
SpecFn == InitFn /\ [][NextFn]_vars /\ WF_vars(NextFn)

\* ---- orm/workflow.py: the legacy Workflow and its steps -------------------------

\* The workflows there are: the DbWorkflow records.
Workflows == DOMAIN wstatus

wf_states == {"CREATED", "RUNNING", "FINISHED"}
\* WF_STEP_EXIT of workflow.py (a name that begins with WF_ is an operator of
\* TLA+).
STEP_EXIT == "exit"
wf_start_call == "start"
wf_exit_call == "exit"

\* The names of the methods of a workflow class that call next and attach_*:
\* the start step, one further step, and the method called exit.
StepNames == {wf_start_call, "run"}
CallerNames == StepNames \cup {STEP_EXIT}
NameOrder == <<wf_start_call, "run", STEP_EXIT>>

\* An object that is not a Calculation.
NotACalculation == 0

NoNext == "None"

\* The table of steps: for a workflow and a name, the rows of that name in the
\* order they were created. A step is identified by <<workflow, name, row>>.
NoSteps == [key \in Workflows \X CallerNames |-> <<>>]
NoStep == <<0, "", 0>>

\* A DbWorkflowStep as it is created.
NewStep == [status |-> "CREATED", nextcall |-> NoNext, calcs |-> {}, subs |-> {}]

\* Every step of the table.
AllSteps(st) ==
    UNION {{<<key[1], key[2], k>> : k \in 1..Len(st[key])} : key \in DOMAIN st}

Step(st, id) == st[<<id[1], id[2]>>][id[3]]

\* steps.get_or_create(name=..., user=...) that creates on every call.
get_or_createAlways(st, w, name) ==
    [steps |-> [st EXCEPT ![<<w, name>>] = Append(@, NewStep)],
     id |-> <<w, name, Len(st[<<w, name>>]) + 1>>, err |-> "none"]

\* steps.get_or_create(name=..., user=...): the step of that name, created
\* when there is none.
get_or_create(st, w, name) ==
    IF st[<<w, name>>] # <<>>
    THEN [steps |-> st, id |-> <<w, name, 1>>, err |-> "none"]
    ELSE [steps |-> [st EXCEPT ![<<w, name>>] = Append(@, NewStep)],
          id |-> <<w, name, 1>>, err |-> "none"]

\* get_step without the check of the reserved name.
get_stepNoReserved(st, w, method_name) == get_or_create(st, w, method_name)

\* Workflow.get_step: InternalError for the reserved name, else get_or_create.
get_step(st, w, method_name) ==
    IF method_name = STEP_EXIT
    THEN [steps |-> st, id |-> NoStep, err |-> "InternalError"]
    ELSE get_or_create(st, w, method_name)

\* The table with the row of step id replaced.
WithRow(st, id, row) == [st EXCEPT ![<<id[1], id[2]>>][id[3]] = row]

\* w.get_step(method)
GetStep(w, method) ==
    /\ nops < MaxOps
    /\ LET r == get_step(steps, w, method)
       IN  /\ steps' = r.steps
           /\ ret' = r.err
    /\ klog' = <<>>
    /\ rlog' = <<>>
    /\ UNCHANGED <<wstatus, report, procVars, netVars, batchVars, leafVars>>
    /\ nops' = nops + 1

\* Workflow.next: the steps and the statuses after the call made from the
\* method caller_funct of workflow w, and the exception it raised.
next(st, ws, w, caller_funct, method_name) ==
    LET r == get_step(st, w, caller_funct)
    IN  IF r.err # "none"
        THEN [steps |-> st, wstatus |-> ws, err |-> r.err]
        ELSE [steps |-> WithRow(r.steps, r.id,
                                [Step(r.steps, r.id) EXCEPT !.nextcall = method_name]),
              wstatus |-> IF caller_funct = wf_start_call
                          THEN [ws EXCEPT ![w] = "RUNNING"]
                          ELSE ws,
              err |-> "none"]

\* w.next(method), called from the method caller_funct of the workflow.
NextCall(w, caller_funct, method_name) ==
    /\ nops < MaxOps
    /\ LET r == next(steps, wstatus, w, caller_funct, method_name)
       IN  /\ steps' = r.steps
           /\ wstatus' = r.wstatus
           /\ ret' = r.err
    /\ klog' = <<>>
    /\ rlog' = <<>>
    /\ UNCHANGED <<report, procVars, netVars, batchVars, leafVars>>
    /\ nops' = nops + 1

\* Workflow.attach_calculation: the steps and the statuses after the call, and
\* the exception it raised.
attach_calculation(st, ws, w, caller_funct, calc) ==
    IF calc = NotACalculation
    THEN [steps |-> st, wstatus |-> ws, err |-> "AiidaException"]
    ELSE LET r == get_step(st, w, caller_funct)
         IN  IF r.err # "none"
             THEN [steps |-> st, wstatus |-> ws, err |-> r.err]
             ELSE [steps |-> WithRow(r.steps, r.id,
                                     [Step(r.steps, r.id) EXCEPT !.calcs = @ \cup {calc}]),
                   wstatus |-> ws, err |-> "none"]

\* w.attach_calculation(calc), called from the method caller_funct.
AttachCalculation(w, caller_funct, calc) ==
    /\ nops < MaxOps
    /\ LET r == attach_calculation(steps, wstatus, w, caller_funct, calc)
       IN  /\ steps' = r.steps
           /\ wstatus' = r.wstatus
           /\ ret' = r.err
    /\ klog' = <<>>
    /\ rlog' = <<>>
    /\ UNCHANGED <<report, procVars, netVars, batchVars, leafVars>>
    /\ nops' = nops + 1

\* attach_workflow that also sets the workflow running.
attach_workflowSetsRunning(st, ws, w, caller_funct, sub_wf) ==
    LET r == get_step(st, w, caller_funct)
    IN  IF r.err # "none"
        THEN [steps |-> st, wstatus |-> ws, err |-> r.err]
        ELSE [steps |-> WithRow(r.steps, r.id,
                                [Step(r.steps, r.id) EXCEPT !.subs = @ \cup {sub_wf}]),
              wstatus |-> [ws EXCEPT ![w] = "RUNNING"], err |-> "none"]

\* Workflow.attach_workflow: the steps and the statuses after the call, and the
\* exception it raised.
attach_workflow(st, ws, w, caller_funct, sub_wf) ==
    LET r == get_step(st, w, caller_funct)
    IN  IF r.err # "none"
        THEN [steps |-> st, wstatus |-> ws, err |-> r.err]
        ELSE [steps |-> WithRow(r.steps, r.id,
                                [Step(r.steps, r.id) EXCEPT !.subs = @ \cup {sub_wf}]),
              wstatus |-> ws, err |-> "none"]

\* w.attach_workflow(sub_wf), called from the method caller_funct.
AttachWorkflow(w, caller_funct, sub_wf) ==
    /\ nops < MaxOps
    /\ LET r == attach_workflow(steps, wstatus, w, caller_funct, sub_wf)
       IN  /\ steps' = r.steps
           /\ wstatus' = r.wstatus
           /\ ret' = r.err
    /\ klog' = <<>>
    /\ rlog' = <<>>
    /\ UNCHANGED <<report, procVars, netVars, batchVars, leafVars>>
    /\ nops' = nops + 1

Min(S) == CHOOSE x \in S : \A y \in S : x <= y

\* The elements of a set of workflows, in ascending order: the order a query
\* returns its rows in.
RECURSIVE InOrder(_)
InOrder(S) == IF S = {} THEN <<>> ELSE <<Min(S)>> \o InOrder(S \ {Min(S)})

\* The steps of workflow w, in the order a query returns them in.
RECURSIVE StepsInOrder(_, _, _)
StepsInOrder(st, w, i) ==
    IF i > Len(NameOrder) THEN <<>>
    ELSE [k \in 1..Len(st[<<w, NameOrder[i]>>]) |-> <<w, NameOrder[i], k>>]
           \o StepsInOrder(st, w, i + 1)

\* Calculation._set_state(state): the state attribute is overwritten.
set_state(p, state) == [p EXCEPT !.state = state]

\* Python's recursion limit: deeper than any chain of distinct workflows.
RecursionLimit == Cardinality(Workflows) + 1

\* self.get_steps(state=...)
get_steps(w, state) ==
    LET HasState(id) == Step(steps, id).status = state
    IN  SelectSeq(StepsInOrder(steps, w, 1), HasState)

\* What a kill has written so far: T.proc and T.wstatus are the records, T.log
\* the writes in the order made, T.err the exception that is propagating.
KillWrote(T, what, id) == [T EXCEPT !.log = Append(@, [what |-> what, id |-> id])]

\* Workflow.kill_step_calculations(step)
kill_step_calculations(T, s) ==
    KillWrote([T EXCEPT !.proc = [pk \in DOMAIN T.proc |->
                                    IF pk \in Step(steps, s).calcs
                                    THEN set_state(T.proc[pk], "FINISHED")
                                    ELSE T.proc[pk]]],
              "calculations", s)

RECURSIVE kill(_, _, _)
RECURSIVE kill_steps(_, _, _)
RECURSIVE kill_sub_workflows(_, _, _)

\* `for w in s.get_sub_workflows(): w.kill()`
kill_sub_workflows(T, ws, depth) ==
    IF ws = <<>> \/ T.err # "none" THEN T
    ELSE kill_sub_workflows(kill(T, Head(ws), depth + 1), Tail(ws), depth)

\* `for s in self.get_steps(state=wf_states.RUNNING): ...`
kill_steps(T, ss, depth) ==
    IF ss = <<>> \/ T.err # "none" THEN T
    ELSE kill_steps(kill_sub_workflows(kill_step_calculations(T, Head(ss)),
                                       InOrder(Step(steps, Head(ss)).subs), depth),
                    Tail(ss), depth)

\* Workflow.kill, at the given depth of the call stack.
kill(T, w, depth) ==
    IF depth > RecursionLimit THEN [T EXCEPT !.err = "RuntimeError"]
    ELSE LET T1 == kill_steps(KillWrote(T, "kill", <<w, "", 0>>),
                              get_steps(w, "RUNNING"), depth)
         IN  IF T1.err # "none" THEN T1
             ELSE KillWrote([T1 EXCEPT !.wstatus[w] = "FINISHED"], "set_status", <<w, "", 0>>)

\* A kill that also writes the steps: the RUNNING steps of w are set FINISHED.
KillFinishesSteps(w) ==
    /\ nops < MaxOps
    /\ LET T == kill([proc |-> proc, wstatus |-> wstatus, log |-> <<>>, err |-> "none"],
                     w, 1)
       IN  /\ proc' = T.proc
           /\ wstatus' = T.wstatus
           /\ klog' = T.log
           /\ ret' = T.err
    /\ steps' = [key \in DOMAIN steps |->
                   [k \in 1..Len(steps[key]) |->
                      IF key[1] = w /\ steps[key][k].status = "RUNNING"
                      THEN [steps[key][k] EXCEPT !.status = "FINISHED"]
                      ELSE steps[key][k]]]
    /\ rlog' = <<>>
    /\ UNCHANGED <<report, lastres, netVars, batchVars, leafVars>>
    /\ nops' = nops + 1

\* w.kill()
Kill(w) ==
    /\ nops < MaxOps
    /\ LET T == kill([proc |-> proc, wstatus |-> wstatus, log |-> <<>>, err |-> "none"],
                     w, 1)
       IN  /\ proc' = T.proc
           /\ wstatus' = T.wstatus
           /\ klog' = T.log
           /\ ret' = T.err
    /\ rlog' = <<>>
    /\ UNCHANGED <<steps, report, lastres, netVars, batchVars, leafVars>>
    /\ nops' = nops + 1

\* The daemon advances a step: it is launched, and later it is done.
SetStepStatus(s) ==
    /\ nops < MaxOps
    /\ Step(steps, s).status \in {"CREATED", "RUNNING"}
    /\ steps' = WithRow(steps, s, [Step(steps, s) EXCEPT !.status =
                                      IF @ = "CREATED" THEN "RUNNING" ELSE "FINISHED"])
    /\ ret' = "none"
    /\ klog' = <<>>
    /\ rlog' = <<>>
    /\ UNCHANGED <<wstatus, report, procVars, netVars, batchVars, leafVars>>
    /\ nops' = nops + 1

\* ---- orm/workflow.py: the report of a workflow ----------------------------------

\* A report is a text, a sequence of characters; the texts that are appended
\* are a line and a text of two lines.
NoReport == <<>>
Newline == "\n"
Texts == {<<"a">>, <<"b", Newline, "a">>}

\* str.splitlines(): the lines of a text, without the line ends.
RECURSIVE splitlines(_)
splitlines(text) ==
    IF text = <<>> THEN <<>>
    ELSE LET ends == {i \in 1..Len(text) : text[i] = Newline}
         IN  IF ends = {} THEN <<text>>
             ELSE <<SubSeq(text, 1, Min(ends) - 1)>>
                    \o splitlines(SubSeq(text, Min(ends) + 1, Len(text)))

\* dbworkflowinstance.parent_workflow_step.all(): the steps workflow w is
\* attached to.
parent_workflow_step(st, w) == {id \in AllSteps(st) : w \in Step(st, id).subs}

\* parent_workflow_step.get().parent: the workflow of the one step w is
\* attached to; get() raises when there is more than one.
ParentOf(st, w) ==
    IF Cardinality(parent_workflow_step(st, w)) > 1
    THEN [wf |-> 0, err |-> "MultipleObjectsReturned"]
    ELSE [wf |-> (CHOOSE id \in parent_workflow_step(st, w) : TRUE)[1], err |-> "none"]

\* DbWorkflow.append_to_report(text): the text is added as a line.
AppendLine(text, line) == text \o line \o <<Newline>>

RECURSIVE get_report(_, _, _, _)
RECURSIVE clear_report(_, _, _, _)
RECURSIVE append_to_report(_, _, _, _, _)

\* get_report that reads the report of the workflow it is called on.
get_reportOwn(st, rp, w, depth) == [out |-> splitlines(rp[w]), err |-> "none"]

\* Workflow.get_report, at the given depth of the call stack: the lines it
\* returns and the exception it raised.
get_report(st, rp, w, depth) ==
    IF depth > RecursionLimit THEN [out |-> <<>>, err |-> "RuntimeError"]
    ELSE IF parent_workflow_step(st, w) = {}
    THEN [out |-> splitlines(rp[w]), err |-> "none"]
    ELSE IF ParentOf(st, w).err # "none" THEN [out |-> <<>>, err |-> ParentOf(st, w).err]
    ELSE get_report(st, rp, ParentOf(st, w).wf, depth + 1)

\* Workflow.clear_report: the reports after the call and the exception raised.
clear_report(st, rp, w, depth) ==
    IF depth > RecursionLimit THEN [report |-> rp, err |-> "RuntimeError"]
    ELSE IF parent_workflow_step(st, w) = {}
    THEN [report |-> [rp EXCEPT ![w] = NoReport], err |-> "none"]
    ELSE IF ParentOf(st, w).err # "none" THEN [report |-> rp, err |-> ParentOf(st, w).err]
    ELSE clear_report(st, rp, ParentOf(st, w).wf, depth + 1)

\* append_to_report that writes the report of the workflow it is called on.
append_to_reportOwn(st, rp, w, text, depth) ==
    [report |-> [rp EXCEPT ![w] = AppendLine(@, text)], err |-> "none"]

\* Workflow.append_to_report: the reports after the call and the exception
\* raised.
append_to_report(st, rp, w, text, depth) ==
    IF depth > RecursionLimit THEN [report |-> rp, err |-> "RuntimeError"]
    ELSE IF parent_workflow_step(st, w) = {}
    THEN [report |-> [rp EXCEPT ![w] = AppendLine(@, text)], err |-> "none"]
    ELSE IF ParentOf(st, w).err # "none" THEN [report |-> rp, err |-> ParentOf(st, w).err]
    ELSE append_to_report(st, rp, ParentOf(st, w).wf, text, depth + 1)

ReportCall(op, w, text, lines) == <<[op |-> op, wf |-> w, text |-> text, out |-> lines]>>

\* w.get_report()
GetReport(w) ==
    /\ nops < MaxOps
    /\ LET r == get_report(steps, report, w, 1)
       IN  /\ rlog' = ReportCall("get_report", w, <<>>, r.out)
           /\ ret' = r.err
    /\ klog' = <<>>
    /\ UNCHANGED <<wstatus, steps, report, procVars, netVars, batchVars, leafVars>>
    /\ nops' = nops + 1

\* w.clear_report()
ClearReport(w) ==
    /\ nops < MaxOps
    /\ LET r == clear_report(steps, report, w, 1)
       IN  /\ report' = r.report
           /\ ret' = r.err
    /\ rlog' = ReportCall("clear_report", w, <<>>, <<>>)
    /\ klog' = <<>>
    /\ UNCHANGED <<wstatus, steps, procVars, netVars, batchVars, leafVars>>
    /\ nops' = nops + 1

\* w.append_to_report(text)
AppendToReport(w, text) ==
    /\ nops < MaxOps
    /\ LET r == append_to_report(steps, report, w, text, 1)
       IN  /\ report' = r.report
           /\ ret' = r.err
    /\ rlog' = ReportCall("append_to_report", w, text, <<>>)
    /\ klog' = <<>>
    /\ UNCHANGED <<wstatus, steps, procVars, netVars, batchVars, leafVars>>
    /\ nops' = nops + 1

\* Workflows and calculations are names that can be exchanged for one another,
\* so the histories are taken up to renaming: a workflow (a calculation) is
\* used for the first time only after all smaller ones have been used.
UsedWorkflow(w) ==
    \/ wstatus[w] # "CREATED"
    \/ report[w] # NoReport
    \/ \E name \in CallerNames : steps[<<w, name>>] # <<>>
    \/ \E key \in DOMAIN steps : \E k \in 1..Len(steps[key]) : w \in steps[key][k].subs

UsedCalculation(pk) ==
    \/ proc[pk] # Created
    \/ \E key \in DOMAIN steps : \E k \in 1..Len(steps[key]) : pk \in steps[key][k].calcs

NextWorkflows(after) ==
    {w \in Workflows : w = 1 \/ w - 1 \in after \/ UsedWorkflow(w - 1)}

NextCalculations == {pk \in DOMAIN proc : pk = 1 \/ UsedCalculation(pk - 1)}

\* A calculation of the workflows is driven along by its own runner.
CalculationStep ==
    /\ nops < MaxOps
    /\ \E pk \in NextCalculations, req \in {"start", "suspend", "resume", "finish", "except", "kill"} :
         \E n \in (IF req = "finish" THEN ExitCodes ELSE {NoExit}) :
           /\ Transition(proc[pk], req, n).res = "ok"
           /\ proc' = [proc EXCEPT ![pk] = Transition(proc[pk], req, n).rec]
    /\ ret' = "none"
    /\ klog' = <<>>
    /\ rlog' = <<>>
    /\ UNCHANGED <<wstatus, steps, report, lastres, netVars, batchVars, leafVars>>
    /\ nops' = nops + 1

InitTree ==
    /\ cmd = "kill"
    /\ targets = <<>>
    /\ proc = [pk \in 1..MaxCalcs |-> Created]
    /\ lastres = "none"
    /\ InitBatch
    /\ NoRuns
    /\ wstatus = [w \in 1..MaxWf |-> "CREATED"]
    /\ steps = NoSteps
    /\ ret = "none"
    /\ klog = <<>>
    /\ nops = 0
    /\ report = [w \in Workflows |-> NoReport]
    /\ rlog = <<>>

\* The method a step names as its successor: start -> run -> exit.
Successor(caller) == IF caller = wf_start_call THEN "run" ELSE wf_exit_call

GetStepStep == \E w \in NextWorkflows({}), method \in CallerNames : GetStep(w, method)

NextCallStep ==
    \E w \in NextWorkflows({}), caller \in CallerNames :
       NextCall(w, caller, Successor(caller))

AttachCalculationStep ==
    \E w \in NextWorkflows({}), caller \in CallerNames,
       calc \in NextCalculations \cup {NotACalculation} :
       AttachCalculation(w, caller, calc)

AttachWorkflowStep ==
    \E w \in NextWorkflows({}), caller \in CallerNames :
      \E sub_wf \in NextWorkflows({w}) :
         AttachWorkflow(w, caller, sub_wf)

KillStep == \E w \in NextWorkflows({}) : Kill(w)

DaemonStep == \E s \in AllSteps(steps) : SetStepStatus(s)

NextTree ==
    \/ GetStepStep
    \/ NextCallStep
    \/ AttachCalculationStep
    \/ AttachWorkflowStep
    \/ KillStep
    \/ DaemonStep
    \/ CalculationStep

SpecTree == InitTree /\ [][NextTree]_vars

\* The calls that build a workflow, without the daemon, kill and the runners.
NextSteps ==
    \/ GetStepStep
    \/ NextCallStep
    \/ AttachCalculationStep
    \/ AttachWorkflowStep

SpecSteps == InitTree /\ [][NextSteps]_vars

\* The reports of the workflows of a tree: workflows are attached to one another
\* and report.
InitReport ==
    /\ cmd = "kill"
    /\ targets = <<>>
    /\ proc = [pk \in 1..MaxCalcs |-> Created]
    /\ lastres = "none"
    /\ InitBatch
    /\ NoRuns
    /\ wstatus = [w \in 1..MaxNodes |-> "CREATED"]
    /\ steps = NoSteps
    /\ ret = "none"
    /\ klog = <<>>
    /\ nops = 0
    /\ report = [w \in Workflows |-> NoReport]
    /\ rlog = <<>>

GetReportStep == \E w \in NextWorkflows({}) : GetReport(w)

ClearReportStep == \E w \in NextWorkflows({}) : ClearReport(w)

AppendToReportStep == \E w \in NextWorkflows({}), text \in Texts : AppendToReport(w, text)

\* A workflow attaches a sub-workflow in its start method.
AttachInStartStep ==
    \E w \in NextWorkflows({}) :
      \E sub_wf \in NextWorkflows({w}) :
         AttachWorkflow(w, wf_start_call, sub_wf)

NextReport == AttachInStartStep \/ GetReportStep \/ ClearReportStep \/ AppendToReportStep

SpecReport == InitReport /\ [][NextReport]_vars

\* The workflows of a tree are killed while they are built and report:
\* a workflow attaches calculations and sub-workflows in its start method and
\* names its successor, the daemon launches the steps, reports are written.
AttachCalculationInStartStep ==
    \E w \in NextWorkflows({}), calc \in NextCalculations :
       AttachCalculation(w, wf_start_call, calc)

NextInStartStep ==
    \E w \in NextWorkflows({}) : NextCall(w, wf_start_call, Successor(wf_start_call))

\* A workflow writes a line to its report.
AppendLineStep == \E w \in NextWorkflows({}) : AppendToReport(w, <<"a">>)

NextKill ==
    \/ AttachInStartStep
    \/ AttachCalculationInStartStep
    \/ NextInStartStep
    \/ DaemonStep
    \/ AppendLineStep
    \/ KillStep

SpecKill == InitReport /\ [][NextKill]_vars

\* ---- cmd_work.py: the subtree listing of work_report ------------------------------

\* No batch runs, and there are no processes and no workflows.
Idle ==
    /\ cmd = "kill"
    /\ targets = <<>>
    /\ proc = <<>>
    /\ lastres = "none"
    /\ InitBatch
    /\ NoWorkflows

\* The work calculations of the database and the sets of CALL links between
\* them (a link is <<caller, called>>); nothing in the database keeps a node
\* from being linked to itself or to a node above it.
Nodes == 1..MaxNodes
Graphs == {L \in SUBSET (Nodes \X Nodes) : Cardinality(L) <= MaxLinks}

Reverse(s) == [i \in 1..Len(s) |-> s[Len(s) + 1 - i]]

\* the first row of the query only.
calledFirstOnly(L, desc, pk) ==
    LET subs == InOrder({sub \in Nodes : <<pk, sub>> \in L})
    IN  IF subs = <<>> THEN <<>>
        ELSE IF desc THEN <<subs[Len(subs)]>> ELSE <<subs[1]>>

\* list(itertools.chain(*builder.distinct().all())): the pks of the work
\* calculations called by pk, each once, in the order the query returns them
\* (the query gives no order: ascending or descending).
called(L, desc, pk) ==
    LET subs == InOrder({sub \in Nodes : <<pk, sub>> \in L})
    IN  IF desc THEN Reverse(subs) ELSE subs

\* The depth the call stack allows: deeper than any path of distinct nodes.
StackLimit == MaxNodes

\* the recursion is cut at the limit and returns.
AtStackLimitReturn(pk, level) == [tree |-> <<>>, err |-> "none"]

\* The call stack is exhausted: the interpreter raises and nothing is returned.
AtStackLimit(pk, level) == [tree |-> <<>>, err |-> "RuntimeError"]

RECURSIVE get_subtree(_, _, _, _)
RECURSIVE chain(_, _, _, _)

\* itertools.chain(*[get_subtree(subpk, level=...) for subpk in result])
chain(L, desc, result, level) ==
    IF result = <<>> THEN [tree |-> <<>>, err |-> "none"]
    ELSE LET first == get_subtree(L, desc, Head(result), level)
         IN  IF first.err # "none" THEN first
             ELSE LET rest == chain(L, desc, Tail(result), level)
                  IN  IF rest.err # "none" THEN rest
                      ELSE [tree |-> first.tree \o rest.tree, err |-> "none"]

\* get_subtree(pk, level): the list of <<pk, level>> it returns, or the
\* exception that ends it.
get_subtree(L, desc, pk, level) ==
    IF level > StackLimit THEN AtStackLimit(pk, level)
    ELSE LET below == chain(L, desc, called(L, desc, pk), level + 1)
         IN  IF below.err # "none" THEN below
             ELSE [tree |-> <<<<pk, level>>>> \o below.tree, err |-> "none"]

\* workchain_tree = get_subtree(calculation.pk)
ListSubtree ==
    /\ listing.err = "pending"
    /\ LET r == get_subtree(listing.links, listing.desc, listing.pk, 0)
       IN  listing' = [listing EXCEPT !.tree = r.tree, !.err = r.err]
    /\ UNCHANGED <<procVars, netVars, batchVars, treeVars, fn, hashed, calcjob, reporting>>

InitListing ==
    /\ Idle
    /\ fn = <<>>
    /\ hashed = <<>>
    /\ calcjob = <<>>
    /\ reporting = <<>>
    /\ listing \in [links : Graphs, desc : BOOLEAN, pk : Nodes, tree : {<<>>},
                     err : {"pending"}]

NextListing == ListSubtree

SpecListing == InitListing /\ [][NextListing]_vars

\* ---- cmd_work.py: work_report -------------------------------------------------------

\* A CALL link goes from a node to a node that was created after it.
ForwardGraphs == {L \in Graphs : \A l \in L : l[1] < l[2]}

\* LOG_LEVELS of the two levels of the entries in the log; a node has at most
\* one entry, written when the node was created.
LOG_LEVELS == [INFO |-> 20, REPORT |-> 23]
NoEntry == "none"
Logs == [Nodes -> {NoEntry} \cup DOMAIN LOG_LEVELS]

\* The option --max-depth: not given (None), or an integer.
NoMaxDepth == -1
MaxDepthOptions == {NoMaxDepth} \cup 0..(MaxNodes - 1)

\* The option --levelname as it is by default.
DefaultLevelname == "REPORT"

\* The `calculations` argument: any list of nodes.
CalculationLists == UNION {[1..n -> Nodes] : n \in 0..MaxTargets}

NoLogMessages == "No log messages recorded for this work calculation"

\* get_report_messages(pk, depth, levelname): the entries of pk at or above
\* the level, each with the depth.
get_report_messages(logs, pk, depth, levelname) ==
    IF logs[pk] # NoEntry /\ LOG_LEVELS[logs[pk]] >= LOG_LEVELS[levelname]
    THEN <<[objpk |-> pk, depth |-> depth]>>
    ELSE <<>>

\* `if max_depth:`: the truth value of the option, false for None and for 0.
max_depth_given(max_depth) == max_depth # NoMaxDepth /\ max_depth # 0

\* itertools.chain(*report_list): the messages of the entries of the listing,
\* of those at a depth below max_depth when the option counts as given.
RECURSIVE report_list(_, _, _, _)
report_list(logs, workchain_tree, levelname, max_depth) ==
    IF workchain_tree = <<>> THEN <<>>
    ELSE LET pk == Head(workchain_tree)[1]
             depth == Head(workchain_tree)[2]
             rest == report_list(logs, Tail(workchain_tree), levelname, max_depth)
         IN  IF max_depth_given(max_depth) /\ ~(depth < max_depth)
             THEN rest
             ELSE get_report_messages(logs, pk, depth, levelname) \o rest

\* reports.sort(key=lambda r: r[0].time): a stable sort by the time of the
\* entry; the entry of an older node is older.
RECURSIVE sort_by_time(_)
sort_by_time(reports) ==
    IF reports = <<>> THEN <<>>
    ELSE LET first == Min({reports[i].objpk : i \in 1..Len(reports)})
         IN  SelectSeq(reports, LAMBDA r : r.objpk = first)
               \o sort_by_time(SelectSeq(reports, LAMBDA r : r.objpk # first))

\* A line echoed for the argument at position arg.
Echoed(arg, text, entry) ==
    [arg |-> arg, text |-> text, objpk |-> entry.objpk, depth |-> entry.depth]

\* The body of `for calculation in calculations:` for the calculation at
\* position i: the subtree is listed, the messages are collected and sorted;
\* without messages the line is echoed and the command returns, else every
\* message is echoed.
ReportCalculation ==
    /\ reporting.pc = "loop"
    /\ reporting.i <= Len(reporting.calculations)
    /\ LET workchain_tree == get_subtree(reporting.links, reporting.desc,
                                         reporting.calculations[reporting.i], 0)
           reports == sort_by_time(report_list(reporting.logs, workchain_tree.tree,
                                               reporting.levelname, reporting.max_depth))
       IN  IF workchain_tree.err # "none"
           THEN reporting' = [reporting EXCEPT !.pc = "failed", !.err = workchain_tree.err]
           ELSE IF reports = <<>>
           THEN reporting' = [reporting EXCEPT
                                !.echoed = Append(@, Echoed(reporting.i, NoLogMessages,
                                                            [objpk |-> 0, depth |-> 0])),
                                !.pc = "done"]
           ELSE reporting' = [reporting EXCEPT
                                !.echoed = @ \o [k \in 1..Len(reports) |->
                                                   Echoed(reporting.i, "message", reports[k])],
                                !.i = @ + 1]
    /\ UNCHANGED <<procVars, netVars, batchVars, treeVars, fn, hashed, listing, calcjob>>

\* The loop is exhausted: the `return` at the end of work_report.
ReportEnd ==
    /\ reporting.pc = "loop"
    /\ reporting.i > Len(reporting.calculations)
    /\ reporting' = [reporting EXCEPT !.pc = "done"]
    /\ UNCHANGED <<procVars, netVars, batchVars, treeVars, fn, hashed, listing, calcjob>>

InitWorkReport ==
    /\ Idle
    /\ fn = <<>>
    /\ hashed = <<>>
    /\ listing = <<>>
    /\ calcjob = <<>>
    /\ reporting \in [calculations : CalculationLists, links : ForwardGraphs,
                       desc : BOOLEAN, logs : Logs, levelname : {DefaultLevelname},
                       max_depth : MaxDepthOptions, i : {1}, echoed : {<<>>},
                       pc : {"loop"}, err : {"none"}]

NextWorkReport == ReportCalculation \/ ReportEnd

SpecWorkReport == InitWorkReport /\ [][NextWorkReport]_vars

\* ---- cmd_work.py: work_watch -------------------------------------------------------

Interrupts == {"SystemExit", "KeyboardInterrupt"}

\* The ways communicator.await() can end: it returns, it raises an exception
\* that is no interrupt, or an interrupt arrives while it blocks.
AwaitEndings == {"normal", "exception"} \cup Interrupts

AlreadyTerminatedWarning == Line("echo_warning", "already terminated")

\* communicator.disconnect(): the transport afterwards and the exception
\* raised; a communicator that is not connected raises RuntimeError.
disconnect(t) ==
    IF t = "open" THEN [transport |-> "disconnected", err |-> "none"]
    ELSE [transport |-> t, err |-> "RuntimeError"]

\* disconnect() without a handler around it.
ExceptNothing(err) == err

\* `try: communicator.disconnect()` / `except RuntimeError: pass`: the
\* exception that leaves the handler.
ExceptRuntimeError(err) == IF err = "RuntimeError" THEN "none" ELSE err

\* communicator = create_communicator()
WatchEnter ==
    /\ cmd = "watch"
    /\ pc = "start"
    /\ transport' = "open"
    /\ opens' = opens + 1
    /\ pc' = "loop"
    /\ UNCHANGED <<leafVars, treeVars, procVars, netVars, cmd, targets, idx, how, disconnects, curCid,
                   nextCid, checked, sent, cids, call, out>>

\* The body of the for loop: a warning for a terminated calculation, and the
\* subscriber is added in either case.
WatchSubscribe ==
    /\ cmd = "watch"
    /\ pc = "loop"
    /\ idx <= Len(targets)
    /\ checked' = [checked EXCEPT ![idx] = IF is_terminated(proc[targets[idx]])
                                           THEN "terminated" ELSE "live"]
    /\ out' = [out EXCEPT ![idx] = IF is_terminated(proc[targets[idx]])
                                   THEN <<AlreadyTerminatedWarning>> ELSE <<>>]
    /\ call' = [call EXCEPT ![idx] = "subscribed"]
    /\ idx' = idx + 1
    /\ UNCHANGED <<leafVars, treeVars, procVars, netVars, cmd, targets, pc, how, transport, opens,
                   disconnects, curCid, nextCid, sent, cids>>

\* `communicator.await()`: the command blocks in the dispatch loop.
WatchAwait ==
    /\ cmd = "watch"
    /\ pc = "loop"
    /\ idx > Len(targets)
    /\ pc' = "wait"
    /\ UNCHANGED <<leafVars, treeVars, procVars, netVars, cmd, targets, idx, how, transport, opens,
                   disconnects, curCid, nextCid, checked, sent, cids, call, out>>

\* The dispatch loop ends. Only an interrupt is caught, and its handler
\* disconnects; a return ends the command, any other exception leaves it.
AwaitEnds(h) ==
    /\ cmd = "watch"
    /\ pc = "wait"
    /\ how' = h
    /\ IF h \in Interrupts
       THEN /\ transport' = disconnect(transport).transport
            /\ disconnects' = disconnects + 1
            /\ pc' = IF ExceptRuntimeError(disconnect(transport).err) = "none"
                     THEN "done" ELSE "failed"
       ELSE /\ pc' = IF h = "normal" THEN "done" ELSE "failed"
            /\ UNCHANGED <<transport, disconnects>>
    /\ UNCHANGED <<leafVars, treeVars, procVars, netVars, cmd, targets, idx, opens, curCid, nextCid,
                   checked, sent, cids, call, out>>

\* The connection of the communicator is closed from the other side.
ConnectionLost ==
    /\ cmd = "watch"
    /\ pc \in {"loop", "wait"}
    /\ transport = "open"
    /\ transport' = "lost"
    /\ UNCHANGED <<leafVars, treeVars, procVars, netVars, cmd, targets, idx, pc, how, opens,
                   disconnects, curCid, nextCid, checked, sent, cids, call, out>>

InitWatch ==
    /\ cmd = "watch"
    /\ targets \in TargetLists
    /\ proc = [pk \in {targets[i] : i \in 1..Len(targets)} |-> Created]
    /\ lastres = "none"
    /\ InitBatch
    /\ NoRuns
    /\ NoWorkflows

AwaitEndsStep == \E h \in AwaitEndings : AwaitEnds(h)

NextWatch ==
    \/ WatchEnter
    \/ WatchSubscribe
    \/ WatchAwait
    \/ AwaitEndsStep
    \/ ConnectionLost
    \/ RunnerStep

SpecWatch == InitWatch /\ [][NextWatch]_vars

\* ---- the hash of a process function invocation -----------------------------------

\* The process functions (a function identity is the name of the function with
\* the marker of its content) and the data nodes given to them: orm.Int(n) and
\* orm.List([n]).
Functions == 1..MaxFns
Values ==
    {[kind |-> "Int", items |-> <<n>>] : n \in 1..MaxVal}
       \cup {[kind |-> "List", items |-> <<n>>] : n \in 1..MaxVal}

\* The named arguments of a call, in the order they are written.
ArgNames == <<"a", "b">>
Names == {ArgNames[i] : i \in 1..Len(ArgNames)}
Kwarg(name, value) == [name |-> name, value |-> value]
Kwargs ==
    {<<>>}
       \cup {<<Kwarg(n, v)>> : n \in Names, v \in Values}
       \cup {<<Kwarg(n[1], v1), Kwarg(n[2], v2)>> :
                n \in {x \in Names \X Names : x[1] # x[2]}, v1 \in Values, v2 \in Values}
Invocations == [f : Functions, kwargs : Kwargs]

\* the arguments as they were written.
normalizeKeepOrder(kwargs, k) == IF k = 1 THEN kwargs ELSE <<>>

\* The named arguments as a mapping: in the order of their names, from the
\* k-th name on.
RECURSIVE normalize(_, _)
normalize(kwargs, k) ==
    IF k > Len(ArgNames) THEN <<>>
    ELSE SelectSeq(kwargs, LAMBDA kw : kw.name = ArgNames[k]) \o normalize(kwargs, k + 1)

\* What of a data node goes into a hash: its type and its content, not its pk.
ObjectsOf(value) ==
    <<<<value.kind, Len(value.items)>>>> \o [i \in 1..Len(value.items) |-> <<"item", value.items[i]>>]

\* What of the inputs goes into a hash: each name with the objects of its value.
RECURSIVE InputObjects(_)
InputObjects(inputs) ==
    IF inputs = <<>> THEN <<>>
    ELSE <<<<Head(inputs).name, 0>>>> \o ObjectsOf(Head(inputs).value)
           \o InputObjects(Tail(inputs))

\* The digest of a sequence of objects. A digest is taken as free of
\* collisions, so it stands for the objects it was computed from.
Digest(objects) == objects

\* compute_hash(function_identity, inputs)
compute_hash(f, kwargs) ==
    Digest(<<<<"function", f>>>> \o InputObjects(normalize(kwargs, 1)))

\* node.base.caching.get_hash(): the hash computed from the node as it is.
get_hash(node) == compute_hash(node.f, node.inputs)

\* function.run_get_node(**kwargs): the node of the run, stored with its
\* input links and with its hash in the extra _aiida_hash.
run_get_node(invocation) ==
    [f |-> invocation.f, inputs |-> normalize(invocation.kwargs, 1),
     _aiida_hash |-> compute_hash(invocation.f, invocation.kwargs)]

RunFunction ==
    /\ Len(hashed.nodes) < Len(hashed.calls)
    /\ hashed' = [hashed EXCEPT !.nodes =
                     Append(@, run_get_node(hashed.calls[Len(hashed.nodes) + 1]))]
    /\ UNCHANGED <<procVars, netVars, batchVars, treeVars, fn, listing, calcjob, reporting>>

InitHash ==
    /\ Idle
    /\ fn = <<>>
    /\ listing = <<>>
    /\ calcjob = <<>>
    /\ reporting = <<>>
    /\ hashed \in [calls : Invocations \X Invocations, nodes : {<<>>}]

NextHash == RunFunction

SpecHash == InitHash /\ [][NextHash]_vars

\* ---- CalcJobNode: the state of a calculation job -----------------------------------

\* The values of the enum CalcJobState, and the objects that are given to
\* set_state: the members of the enum, and strings.
CalcJobStateValues == {"uploading", "submitting", "withscheduler", "retrieving", "parsing"}
CalcJobState == [type : {"CalcJobState"}, value : CalcJobStateValues]
Strings == [type : {"str"}, value : {"INVALID", "uploading"}]
None == [type |-> "NoneType", value |-> "None"]

\* The attribute of the node under CALC_JOB_STATE_KEY: <<>> when it is not
\* set, else the one string stored.
NoAttribute == <<>>

\* CalcJobNode.set_state(state): the attribute afterwards and the exception.
CalcJobNode_set_state(attr, state) ==
    IF state \notin CalcJobState
    THEN [attr |-> attr, err |-> "ValueError"]
    ELSE [attr |-> <<state.value>>, err |-> "none"]

\* get_state that does not catch the ValueError of the enum.
CalcJobNode_get_stateNoCatch(attr) ==
    IF attr = NoAttribute THEN [out |-> None, err |-> "none"]
    ELSE IF attr[1] \in CalcJobStateValues
    THEN [out |-> [type |-> "CalcJobState", value |-> attr[1]], err |-> "none"]
    ELSE [out |-> None, err |-> "ValueError"]

\* CalcJobNode.get_state(): the member of the enum for the stored string, None
\* when there is none.
CalcJobNode_get_state(attr) ==
    IF attr = NoAttribute THEN [out |-> None, err |-> "none"]
    ELSE IF attr[1] \in CalcJobStateValues
    THEN [out |-> [type |-> "CalcJobState", value |-> attr[1]], err |-> "none"]
    ELSE [out |-> None, err |-> "none"]

CalcJobCall(op, arg, result, err) == [op |-> op, arg |-> arg, out |-> result, err |-> err]

\* node.set_state(state)
SetState(node, state) ==
    /\ LET r == CalcJobNode_set_state(calcjob[node].attr, state)
       IN  calcjob' = [calcjob EXCEPT ![node] =
                         [attr |-> r.attr, last |-> CalcJobCall("set_state", state, None, r.err)]]
    /\ UNCHANGED <<procVars, netVars, batchVars, treeVars, fn, hashed, listing, reporting>>

\* node.get_state()
GetState(node) ==
    /\ LET r == CalcJobNode_get_state(calcjob[node].attr)
       IN  calcjob' = [calcjob EXCEPT ![node].last = CalcJobCall("get_state", None, r.out, r.err)]
    /\ UNCHANGED <<procVars, netVars, batchVars, treeVars, fn, hashed, listing, reporting>>

\* node.base.attributes.set(node.CALC_JOB_STATE_KEY, string)
SetAttribute(node, string) ==
    /\ calcjob' = [calcjob EXCEPT ![node] =
                      [attr |-> <<string.value>>,
                       last |-> CalcJobCall("attributes.set", string, None, "none")]]
    /\ UNCHANGED <<procVars, netVars, batchVars, treeVars, fn, hashed, listing, reporting>>

\* node = CalcJobNode(computer=...), for each of the nodes
InitCalcJob ==
    /\ Idle
    /\ fn = <<>>
    /\ hashed = <<>>
    /\ listing = <<>>
    /\ reporting = <<>>
    /\ calcjob = [node \in 1..MaxJobs |->
                    [attr |-> NoAttribute, last |-> CalcJobCall("CalcJobNode", None, None, "none")]]

SetStateStep == \E node \in DOMAIN calcjob, state \in CalcJobState \cup Strings : SetState(node, state)

GetStateStep == \E node \in DOMAIN calcjob : GetState(node)

SetAttributeStep == \E node \in DOMAIN calcjob, string \in Strings : SetAttribute(node, string)

NextCalcJob == SetStateStep \/ GetStateStep \/ SetAttributeStep

SpecCalcJob == InitCalcJob /\ [][NextCalcJob]_vars

\* ---- properties ----------------------------------------------------------------

Indices == 1..Len(targets)
Failures == {"false", "RemoteException", "DeliveryFailed"}
Returned(i) == call[i] \in CallResults

\* A step of the batch loop itself (not of a subscriber or of a runner), other
\* than the interrupt.
LoopMoves == (pc' # pc \/ idx' # idx) /\ how' # "KeyboardInterrupt"

\* C1: when the loop of work_kill, work_pause or work_play reaches a target
\* whose is_terminated is true, its step publishes no command for it, echoes
\* the one line 'already terminated' and goes on to the next target.
C1_TerminatedTargetNotSent ==
    [][(/\ pc = "loop"
        /\ idx <= Len(targets)
        /\ is_terminated(proc[targets[idx]])
        /\ LoopMoves)
       => (/\ cmds' = cmds
           /\ nextCid' = nextCid
           /\ sent'[idx] = 0
           /\ call'[idx] = "none"
           /\ out'[idx] = <<AlreadyTerminatedLine>>
           /\ idx' = idx + 1
           /\ pc' = "loop")]_vars

\* A terminated target was skipped and the target after it was sent its command.
C1_Witness ==
    \E i \in Indices :
        /\ i + 1 \in Indices
        /\ checked[i] = "terminated"
        /\ sent[i] = 0
        /\ out[i] = <<AlreadyTerminatedLine>>
        /\ sent[i + 1] = 1

\* The loop goes on after a failed call of the batch of command c: no failure
\* ends the command, and the loop is past every target whose call failed.
FailureGoesOn(c) ==
    cmd = c =>
        /\ how # "SystemExit"
        /\ \A i \in Indices : call[i] \in Failures => idx > i

\* Every target after a failed call of the batch of command c is handled: when
\* the batch has ended without an interrupt, each of them was checked and,
\* when not terminated, was sent exactly one command, whose call has ended.
LaterTargetsHandled(c) ==
    (cmd = c /\ pc = "done" /\ how # "KeyboardInterrupt") =>
        \A i, j \in Indices :
            (call[i] \in Failures /\ i < j) =>
                /\ checked[j] # "no"
                /\ checked[j] = "active" => (sent[j] = 1 /\ Returned(j))

\* C2: in a work_kill or work_pause batch a false reply, a RemoteException
\* or a DeliveryFailed for one target never aborts the batch: every later
\* target is still checked and, when not terminated, sent its own command.
C2_KillPauseFailureNeverAborts ==
    /\ FailureGoesOn("kill") /\ LaterTargetsHandled("kill")
    /\ FailureGoesOn("pause") /\ LaterTargetsHandled("pause")

\* A kill or pause batch ended normally after its first call failed and a
\* later call succeeded.
C2_Witness ==
    /\ cmd \in {"kill", "pause"}
    /\ pc = "done"
    /\ how = "normal"
    /\ \E i, j \in Indices : i < j /\ call[i] \in Failures /\ call[j] = "true"

\* C3: in a work_play batch a false reply, a RemoteException or a
\* DeliveryFailed for one target never aborts the batch: every later target is
\* still checked and, when not terminated, sent its play command.
C3_PlayFailureNeverAborts == LaterTargetsHandled("play")

\* C4: every target the loop has dealt with has exactly one outcome line, no
\* target has two, a target not yet dealt with has none, and the line is
\* 'succeeded' exactly for a true reply, 'already terminated' exactly for a
\* target the local check skipped without sending, 'failed' exactly for a false
\* reply, a RemoteException or a DeliveryFailed.
C4_ExactlyOneOutcome ==
    \A i \in Indices :
        /\ Len(out[i]) <= 1
        /\ (i < idx \/ (i = idx /\ how = "SystemExit")) => Len(out[i]) = 1
        /\ (i > idx \/ (i = idx /\ how # "SystemExit")) => out[i] = <<>>
        /\ Len(out[i]) = 1 =>
              /\ out[i][1].outcome = "succeeded" <=> call[i] = "true"
              /\ out[i][1].outcome = "failed" <=> call[i] \in Failures
              /\ out[i][1].outcome = "already terminated" <=>
                    (checked[i] = "terminated" /\ sent[i] = 0 /\ call[i] = "none")

\* A batch has ended with one target already terminated and another one
\* succeeded or failed.
C4_Witness ==
    /\ pc = "done"
    /\ \E i, j \in Indices :
          /\ out[i] = <<Line("echo_error", "already terminated")>>
          /\ Len(out[j]) = 1
          /\ out[j][1].outcome \in {"succeeded", "failed"}

\* C5: the transport is opened once, before the first command, is open
\* whenever the loop runs, and is disconnected (once) when the batch has ended,
\* whichever way it ended: the end of the loop, an exception leaving the loop
\* or an interrupt.
C5_TransportScoped ==
    /\ opens <= 1
    /\ pc = "start" => (opens = 0 /\ \A i \in Indices : sent[i] = 0)
    /\ pc \in {"loop", "wait"} => (opens = 1 /\ transport = "open" /\ disconnects = 0)
    /\ pc = "done" =>
          /\ how \in {"normal", "SystemExit", "KeyboardInterrupt"}
          /\ opens = 1
          /\ transport = "disconnected"
          /\ disconnects = 1

\* A batch that an exception ended while a later target was still to come.
C5_Witness ==
    /\ pc = "done"
    /\ how \in {"SystemExit", "KeyboardInterrupt"}
    /\ idx < Len(targets)
    /\ \E i \in Indices : sent[i] = 1
    /\ transport = "disconnected"

RepliesTo(i) == {r \in handled : r.correlation_id = cids[i]}

\* C6: a call whose command no subscriber has received when the call ends,
\* ends with DeliveryFailed (never true, false or RemoteException), and a call
\* ends with RemoteException only if a subscriber received its command and
\* reported an error for it.
C6_UndeliveredIsDeliveryFailed ==
    \A i \in Indices :
        /\ call[i] \in {"true", "false", "RemoteException"} => RepliesTo(i) # {}
        /\ call[i] = "RemoteException" =>
              \E r \in RepliesTo(i) : r.outcome = "ERROR"

\* A call ended with DeliveryFailed while its command had reached nobody, and
\* another ended with RemoteException.
C6_Witness ==
    \E i, j \in Indices :
        /\ call[i] = "DeliveryFailed"
        /\ RepliesTo(i) = {}
        /\ call[j] = "RemoteException"

\* C7: the result of a call is decided by the reply with the call's own
\* correlation id: true only for an acknowledgement of that command, false
\* only for its rejection, RemoteException only for its error; the reply to
\* another command, such as the late reply to a call that timed out, is never
\* taken, and stays unconsumed.
C7_OwnReplyDecides ==
    /\ \A i \in Indices :
          /\ call[i] = "true" <=>
                (Returned(i) /\ \E r \in RepliesTo(i) \ replies : r.outcome = "ACK")
          /\ call[i] = "false" <=>
                (Returned(i) /\ \E r \in RepliesTo(i) \ replies : r.outcome = "REJECT")
          /\ call[i] = "DeliveryFailed" => RepliesTo(i) \subseteq replies
    /\ \A r \in handled \ replies : \E i \in Indices : r \in RepliesTo(i) /\ Returned(i)

\* The late acknowledgement of a timed-out call is still unconsumed when a later
\* call has ended with the rejection of its own command.
C7_Witness ==
    \E i, j \in Indices :
        /\ i < j
        /\ call[i] = "DeliveryFailed"
        /\ \E r \in RepliesTo(i) : r.outcome = "ACK" /\ r \in replies
        /\ call[j] = "false"

\* C8: at most one call is outstanding at any time: the command of a later
\* target is published only after the call for every earlier target has ended.
C8_OneCommandInFlight ==
    /\ Cardinality({i \in Indices : call[i] = "pending"}) <= 1
    /\ \A i, j \in Indices : (i < j /\ sent[j] > 0) => call[i] # "pending"
    /\ \A i \in Indices : call[i] = "pending" => (i = idx /\ curCid = cids[i])

\* A second command is published and outstanding after the first call ended.
C8_Witness ==
    \E i, j \in Indices : i < j /\ Returned(i) /\ call[j] = "pending" /\ pc = "wait"

\* C9: a batch that no interrupt cut short has reached its last target when it
\* ends, every call it made having ended with one of the four results.
C9_BatchReachesLastTarget ==
    (pc = "done" /\ how # "KeyboardInterrupt") =>
        \A i \in Indices :
            /\ checked[i] # "no"
            /\ sent[i] > 0 => Returned(i)

\* The caller never blocks forever and the batch ends.
C9_CallerNeverBlocksForever == (pc = "wait" ~> pc # "wait") /\ <>(pc = "done")

RunMatches(pk) ==
    LET p == proc[pk]
        e == fn[pk].ending
    IN  /\ is_terminated(p)
        /\ e = "return" => (is_finished_ok(p) /\ p.exit_status = 0)
        /\ e = "exit_code" => (is_finished(p) /\ p.exit_status \in ExitCodes
                                /\ (is_finished_ok(p) <=> p.exit_status = 0)
                                /\ (is_failed(p) <=> p.exit_status # 0))
        /\ e \in {"raise", "invalid_outputs"} =>
               (is_excepted(p) /\ ~is_finished(p) /\ fn[pk].caller = "exception")

\* C13: every run of a process function ends, and it ends with its node in the
\* terminal state of its ending: FINISHED with exit status 0 on a normal
\* return, FINISHED with exit status n on ExitCode(n), EXCEPTED (never
\* FINISHED) when the body raises or returns invalid outputs, the exception
\* being raised to the caller as well.
C13_RunEndsInMatchingState ==
    /\ [](\A pk \in DOMAIN fn : fn[pk].phase = "done" => RunMatches(pk))
    /\ \A pk \in 1..MaxProcs :
          (pk \in DOMAIN fn /\ fn[pk].phase = "running") ~> (fn[pk].phase = "done")

C13_Witness ==
    \E a, b, c \in DOMAIN fn :
       /\ fn[a].phase = "done" /\ fn[a].ending = "raise" /\ is_excepted(proc[a])
       /\ fn[b].phase = "done" /\ fn[b].ending = "exit_code" /\ is_failed(proc[b])
       /\ fn[c].phase = "done" /\ fn[c].ending = "return" /\ is_finished_ok(proc[c])


\* ---- workflows: properties -------------------------------------------------------

LegalPairs ==
    {<<"CREATED", "RUNNING">>, <<"RUNNING", "WAITING">>, <<"WAITING", "RUNNING">>,
     <<"RUNNING", "FINISHED">>, <<"RUNNING", "EXCEPTED">>, <<"RUNNING", "KILLED">>}

\* C11: the state of a process (the calculations of the workflows included)
\* changes only along CREATED -> RUNNING, RUNNING -> WAITING, WAITING ->
\* RUNNING and RUNNING -> FINISHED, EXCEPTED or KILLED; no other pair of
\* consecutive states occurs.
C11_OnlyLegalTransitions ==
    [][\A pk \in DOMAIN proc :
          proc'[pk].state # proc[pk].state
             => <<proc[pk].state, proc'[pk].state>> \in LegalPairs]_vars

C15_ExitIsReserved ==
    /\ [](/\ \A w \in Workflows : steps[<<w, STEP_EXIT>>] = <<>>
          /\ \A w \in Workflows :
                /\ get_step(steps, w, STEP_EXIT).err = "InternalError"
                /\ get_step(steps, w, STEP_EXIT).steps = steps)
    /\ [][ret' = "InternalError" => steps' = steps]_vars

C15_Witness ==
    /\ ret = "InternalError"
    /\ \E key \in DOMAIN steps : steps[key] # <<>>

\* The workflows attached to the steps of w, and all workflows beneath w.
Children(w) == UNION {Step(steps, id).subs : id \in {x \in AllSteps(steps) : x[1] = w}}

RECURSIVE Beneath(_, _)
Beneath(S, n) ==
    IF n = 0 THEN S ELSE Beneath(S \cup UNION {Children(w) : w \in S}, n - 1)

Descendants(w) == Beneath(Children(w), Cardinality(Workflows))

Acyclic == \A w \in Workflows : w \notin Descendants(w)

\* The steps of w and of every workflow beneath it.
StepsBeneath(w) == {id \in AllSteps(steps) : id[1] \in {w} \cup Descendants(w)}

IsRunning(id) == Step(steps, id).status = "RUNNING"

\* The last call was a kill, of workflow KillRoot. (kill leaves the steps as
\* they are, so a step that is RUNNING now was RUNNING before the call.)
Killed == klog # <<>>
KillRoot == klog[1].id[1]

\* C16: after kill(root) on an acyclic tree no step beneath root is RUNNING and
\* the status of root is FINISHED.
C16_NoRunningStepAfterKill ==
    (Killed /\ Acyclic)
       => /\ wstatus[KillRoot] = "FINISHED"
          /\ \A id \in StepsBeneath(KillRoot) : ~IsRunning(id)

\* C17: kill(workflow) puts every calculation of a RUNNING step of the workflow
\* into the state KILLED, and it writes the calculations of a step before it
\* goes into the child workflows of that step.
C17_CalculationsKilledFirst ==
    Killed
       => /\ \A id \in AllSteps(steps) :
                (id[1] = KillRoot /\ IsRunning(id))
                   => \A pk \in Step(steps, id).calcs : proc[pk].state = "KILLED"
          /\ \A i \in 2..Len(klog) :
                klog[i].what = "kill"
                   => \E j \in 1..(i - 1) :
                         /\ klog[j].what = "calculations"
                         /\ klog[i].id[1] \in Step(steps, klog[j].id).subs

\* C18: kill(root) covers every RUNNING step beneath root: for every workflow d
\* beneath root and every RUNNING step s of d, the calculations of s are in a
\* terminal state afterwards and the status of d is FINISHED, whatever the
\* status of the step d is attached to.
C18_KillCoversEveryRunningStep ==
    (Killed /\ Acyclic /\ ret = "none")
       => \A d \in Descendants(KillRoot) :
             \A id \in AllSteps(steps) :
                (id[1] = d /\ IsRunning(id))
                   => /\ \A pk \in Step(steps, id).calcs : is_terminated(proc[pk])
                      /\ wstatus[d] = "FINISHED"

\* C19: in every state the calls of get_step, next, attach_calculation,
\* attach_workflow and kill lead to, a workflow is RUNNING exactly when a step
\* beneath it is RUNNING, and a FINISHED workflow has no RUNNING step beneath it.
C19_StatusFollowsSteps ==
    \A w \in Workflows :
       /\ wstatus[w] = "RUNNING" <=> (\E id \in StepsBeneath(w) : IsRunning(id))
       /\ wstatus[w] = "FINISHED" => ~(\E id \in StepsBeneath(w) : IsRunning(id))

\* C20: kill returns on every tree of workflows the calls of get_step, next,
\* attach_calculation and attach_workflow can build: the recursion comes to an
\* end, it does not run until the call stack is exhausted.
C20_KillReturns == Killed => ret # "RuntimeError"

\* C21: next(method), called from a step of workflow w, stores the name of the
\* successor on that step; it changes the status of a workflow only when the
\* caller is the start step, and then the status of w goes from CREATED to
\* RUNNING; called from any other step it leaves every status as it is.
C21_NextPromotesOnlyFromStart ==
    \A w \in Workflows, caller \in CallerNames :
       LET r == next(steps, wstatus, w, caller, Successor(caller))
       IN  /\ r.err = "none"
                => /\ Len(r.steps[<<w, caller>>]) = 1
                   /\ r.steps[<<w, caller>>][1].nextcall = Successor(caller)
           /\ caller # wf_start_call => r.wstatus = wstatus
           /\ r.wstatus # wstatus
                => /\ caller = wf_start_call
                   /\ wstatus[w] = "CREATED"
                   /\ r.wstatus = [wstatus EXCEPT ![w] = "RUNNING"]

\* The step id as it is after an attach made from the method caller of workflow
\* w, when the attach did not fail: the step of the caller has one more element
\* in the given collection, every other step is as it was (a step that did not
\* exist is as it is created).
AfterAttach(id, w, caller, field, x) ==
    LET old == IF id \in AllSteps(steps) THEN Step(steps, id) ELSE NewStep
    IN  IF id[1] = w /\ id[2] = caller
        THEN [old EXCEPT ![field] = @ \cup {x}]
        ELSE old

\* C22: attach_calculation and attach_workflow only add to the collections of
\* the step of the caller: the status of every workflow, and the status and the
\* successor of every step, are after the call what they were before it; an
\* attach that fails (an argument that is not a Calculation, a reserved caller)
\* changes nothing at all.
C22_AttachOnlyAppends ==
    /\ [](\A w \in Workflows, caller \in CallerNames :
            /\ \A calc \in DOMAIN proc \cup {NotACalculation} :
                  LET r == attach_calculation(steps, wstatus, w, caller, calc)
                  IN  /\ r.wstatus = wstatus
                      /\ calc = NotACalculation => r.err = "AiidaException"
                      /\ r.err # "none" => r.steps = steps
                      /\ r.err = "none"
                           => /\ AllSteps(steps) \subseteq AllSteps(r.steps)
                              /\ \A id \in AllSteps(r.steps) :
                                    Step(r.steps, id) = AfterAttach(id, w, caller, "calcs", calc)
            /\ \A sub_wf \in Workflows :
                  LET r == attach_workflow(steps, wstatus, w, caller, sub_wf)
                  IN  /\ r.wstatus = wstatus
                      /\ r.err # "none" => r.steps = steps
                      /\ r.err = "none"
                           => /\ AllSteps(steps) \subseteq AllSteps(r.steps)
                              /\ \A id \in AllSteps(r.steps) :
                                    Step(r.steps, id) = AfterAttach(id, w, caller, "subs", sub_wf))
    /\ [][ret' = "AiidaException"
            => (steps' = steps /\ wstatus' = wstatus /\ proc' = proc)]_vars

\* A running workflow with an attached calculation and an attached workflow, on
\* which an attach_calculation has just failed.
C22_Witness ==
    /\ ret = "AiidaException"
    /\ \E w \in Workflows :
          /\ wstatus[w] = "RUNNING"
          /\ \E id \in AllSteps(steps) : id[1] = w /\ Step(steps, id).calcs # {}
          /\ \E id \in AllSteps(steps) : id[1] = w /\ Step(steps, id).subs # {}

\* ---- the reports: properties ------------------------------------------------------

\* The workflows w is attached to, and all workflows above w.
Parents(w) == {id[1] : id \in parent_workflow_step(steps, w)}

RECURSIVE Above(_, _)
Above(S, n) ==
    IF n = 0 THEN S ELSE Above(S \cup UNION {Parents(w) : w \in S}, n - 1)

Ancestors(w) == Above(Parents(w), Cardinality(Workflows) - 1)

\* n is a node of a tree: on the way up from n every workflow is attached to at
\* most one step, and the way ends in a workflow that is attached to none (it
\* does not go round). RootOf(n) is the end of that way.
OnTree(n) ==
    LET up == {n} \cup Ancestors(n)
    IN  /\ \A a \in up : Cardinality(parent_workflow_step(steps, a)) <= 1
        /\ \E r \in up : parent_workflow_step(steps, r) = {}

RootOf(n) == CHOOSE r \in {n} \cup Ancestors(n) : parent_workflow_step(steps, r) = {}

LinesOf(lines) == {lines[i] : i \in 1..Len(lines)}

ReportCalled(op) == rlog # <<>> /\ rlog[1].op = op

IsLine(text) == \A i \in 1..Len(text) : text[i] # Newline

\* C23: for every node n of a tree of workflows, of any depth, get_report(n)
\* returns what get_report of the root of n returns, the lines of the report
\* of the root; and after a line was appended through n, get_report of the
\* root and of every other node of the tree of n contains that line.
C23_ReportIsTheRootsReport ==
    /\ \A n \in Workflows :
          OnTree(n)
             => LET got == get_report(steps, report, n, 1)
                IN  /\ got.err = "none"
                    /\ got = get_report(steps, report, RootOf(n), 1)
                    /\ got.out = splitlines(report[RootOf(n)])
    /\ (ReportCalled("get_report") /\ OnTree(rlog[1].wf))
          => rlog[1].out = splitlines(report[RootOf(rlog[1].wf)])
    /\ (ReportCalled("append_to_report") /\ IsLine(rlog[1].text) /\ OnTree(rlog[1].wf))
          => LET root == RootOf(rlog[1].wf)
             IN  \A m \in Workflows :
                    (OnTree(m) /\ RootOf(m) = root)
                       => rlog[1].text \in LinesOf(get_report(steps, report, m, 1).out)

\* A line was appended through a workflow two levels beneath its root, to a
\* report that had a line already.
C23_Witness ==
    /\ ReportCalled("append_to_report")
    /\ IsLine(rlog[1].text)
    /\ ret = "none"
    /\ OnTree(rlog[1].wf)
    /\ \E p \in Workflows :
          /\ p # RootOf(rlog[1].wf)
          /\ p \in Ancestors(rlog[1].wf)
    /\ Len(get_report(steps, report, rlog[1].wf, 1).out) >= 2

\* C24: append_to_report and clear_report, called on any workflow n, write no
\* report but the one of the root of n: the report of every workflow that is
\* attached to a step, and of every workflow of another tree, is after the call
\* what it was before it; on a tree the report of the root gets the line, or
\* is emptied.
C24_OnlyTheRootsReportIsWritten ==
    [][(nops' # nops /\ rlog' # <<>> /\ rlog'[1].op \in {"append_to_report", "clear_report"})
          => /\ \A w \in Workflows :
                   report'[w] # report[w]
                      => /\ parent_workflow_step(steps, w) = {}
                         /\ w \in {rlog'[1].wf} \cup Ancestors(rlog'[1].wf)
             /\ OnTree(rlog'[1].wf)
                   => report' = [report EXCEPT ![RootOf(rlog'[1].wf)] =
                                    IF rlog'[1].op = "clear_report" THEN NoReport
                                    ELSE AppendLine(@, rlog'[1].text)]]_vars

\* A line was appended through a workflow that is attached to a step and has
\* a report of its own, while a workflow of another tree has a report too.
C24_Witness ==
    /\ ReportCalled("append_to_report")
    /\ ret = "none"
    /\ parent_workflow_step(steps, rlog[1].wf) # {}
    /\ report[rlog[1].wf] # NoReport
    /\ report[rlog[1].wf] # report[RootOf(rlog[1].wf)]
    /\ \E w \in Workflows :
          /\ w \notin {rlog[1].wf} \cup Ancestors(rlog[1].wf) \cup Descendants(rlog[1].wf)
          /\ parent_workflow_step(steps, w) = {}

\* ---- the subtree listing: properties ---------------------------------------------

Listed == listing # <<>> /\ listing.err = "none"

\* The entries of a listing T that are beneath entry i: the ones that follow
\* it up to the next entry that is not deeper than it.
Block(T, i) == {j \in (i + 1)..Len(T) : \A k \in (i + 1)..j : T[k][2] > T[i][2]}

\* The entries beneath entry i that are one level deeper than it.
Kids(T, i) == {j \in Block(T, i) : T[j][2] = T[i][2] + 1}

\* C25: get_subtree(pk) returns the nodes in pre-order: the first entry is
\* <<pk, 0>>; the entries one level beneath an entry <<n, d>>, within the run
\* of deeper entries that follows it, are the nodes n called, each once, at
\* level d + 1; so the whole subtree of a child stands right after the child
\* and before the next child of the node.
C25_PreOrder ==
    Listed
       => LET T == listing.tree
          IN  /\ Len(T) >= 1
              /\ T[1] = <<listing.pk, 0>>
              /\ \A j \in 2..Len(T) : T[j][2] >= 1 /\ T[j][2] <= T[j - 1][2] + 1
              /\ \A i \in 1..Len(T) :
                    /\ {T[j][1] : j \in Kids(T, i)}
                          = {sub \in Nodes : <<T[i][1], sub>> \in listing.links}
                    /\ \A j, k \in Kids(T, i) : T[j][1] = T[k][1] => j = k

\* A listing with a node that called two nodes, one of which called again.
C25_Witness ==
    /\ Listed
    /\ Len(listing.tree) >= 4
    /\ \E i \in 1..Len(listing.tree) : listing.tree[i][2] = 2
    /\ \E i \in 1..Len(listing.tree) : Cardinality(Kids(listing.tree, i)) = 2

\* The nodes that can be reached over the links L from the nodes S.
RECURSIVE Reach(_, _, _)
Reach(L, S, n) ==
    IF n = 0 THEN S
    ELSE Reach(L, S \cup {l[2] : l \in {x \in L : x[1] \in S}}, n - 1)

Called(L, pk) == {l[2] : l \in {x \in L : x[1] = pk}}

CycleReachable(L, pk) ==
    \E n \in Reach(L, {pk}, MaxNodes) : n \in Reach(L, Called(L, n), MaxNodes)

\* C26: get_subtree(pk) returns exactly when no cycle of links can be reached
\* from pk: on an acyclic graph it returns its listing, and with a cycle in
\* reach the recursion goes on until the call stack is exhausted and nothing
\* is returned (no visited pk is kept, no depth is bounded).
C26_ReturnsIffAcyclic ==
    (listing # <<>> /\ listing.err # "pending")
       => /\ listing.err = "none" <=> ~CycleReachable(listing.links, listing.pk)
          /\ CycleReachable(listing.links, listing.pk)
                => (listing.err = "RuntimeError" /\ listing.tree = <<>>)

\* The listing of a node that is on no cycle itself, but has called one.
C26_Witness ==
    /\ listing # <<>>
    /\ listing.err = "RuntimeError"
    /\ listing.pk \notin Reach(listing.links, Called(listing.links, listing.pk), MaxNodes)

\* ---- work_watch: properties -------------------------------------------------------

\* C27: an interrupt (KeyboardInterrupt or SystemExit) that arrives while
\* work_watch blocks in the dispatch loop leads to exactly one call of
\* disconnect(), and the command ends without an error, also when the
\* communicator was disconnected already and disconnect() raises RuntimeError.
C27_InterruptDisconnectsOnce ==
    /\ []((cmd = "watch" /\ how \in Interrupts) => (pc = "done" /\ disconnects = 1))
    /\ [][(cmd = "watch" /\ pc = "wait" /\ how' \in Interrupts)
            => /\ disconnects' = disconnects + 1
               /\ pc' = "done"
               /\ transport' # "open"]_vars

\* The watch was interrupted after its connection had been lost.
C27_Witness ==
    /\ cmd = "watch"
    /\ how = "KeyboardInterrupt"
    /\ pc = "done"
    /\ transport = "lost"
    /\ disconnects = 1
    /\ \E i \in 1..Len(targets) : call[i] = "subscribed"

\* C28: on every way the dispatch loop of work_watch ends (await returns, an
\* exception that is no interrupt, an interrupt) disconnect() has been called
\* exactly once, and the command never ends with the communicator connected.
C28_DisconnectOnEveryExit ==
    (cmd = "watch" /\ pc \in {"done", "failed"})
       => (disconnects = 1 /\ transport # "open")

\* ---- the hash of a process function invocation: properties -------------------------

\* The named arguments of a call as a mapping.
Mapping(kwargs) == {<<kwargs[i].name, kwargs[i].value>> : i \in 1..Len(kwargs)}

C30_GetSetState ==
    /\ [](\A node \in DOMAIN calcjob :
            LET job == calcjob[node]
                got == CalcJobNode_get_state(job.attr)
            IN  /\ got.err = "none"
                /\ job.attr = NoAttribute => got.out = None
                /\ (job.attr # NoAttribute /\ job.attr[1] \notin CalcJobStateValues)
                      => got.out = None
                /\ job.last.op = "CalcJobNode" => got.out = None
                /\ job.last.op = "get_state"
                      => (job.last.out = got.out /\ job.last.err = "none")
                /\ (job.last.op = "set_state" /\ job.last.arg \in CalcJobState)
                      => (job.last.err = "none" /\ got.out = job.last.arg)
                /\ (job.last.op = "set_state" /\ job.last.arg \notin CalcJobState)
                      => job.last.err = "ValueError")
    /\ [][\A node \in DOMAIN calcjob :
             (calcjob'[node].last.err = "ValueError" \/ calcjob'[node].last = calcjob[node].last)
                => calcjob'[node].attr = calcjob[node].attr]_vars

\* get_state() on a node whose attribute was set to a string that is no state,
\* and a set_state that has failed on a node that keeps its state.
C30_Witness ==
    \E a, b \in DOMAIN calcjob :
       /\ calcjob[a].last.op = "get_state"
       /\ calcjob[a].attr = <<"INVALID">>
       /\ calcjob[a].last.out = None
       /\ calcjob[a].last.err = "none"
       /\ calcjob[b].last.err = "ValueError"
       /\ calcjob[b].attr = <<"uploading">>

\* ---- further properties of the batch, the workflows and the listing ---------------

\* C31: a target that ends after the local is_terminated check found it active
\* and before its command is received has the command rejected: the process
\* is left in the terminal state it is in and the reply is the rejection; the
\* call then gives false, or DeliveryFailed when the timeout elapses first, the
\* lines echoed for the target are failures only (at least one once the call
\* has ended), and the process is terminal ever after.
C31_LateTerminalIsRejected ==
    /\ [][\A c \in cmds :
            (is_terminated(proc[c.target_pk]) /\ Deliver(c))
              => /\ proc' = proc
                 /\ [correlation_id |-> c.correlation_id, outcome |-> "REJECT"] \in handled']_vars
    /\ [](\A i \in Indices :
            (checked[i] = "active" /\ \E r \in RepliesTo(i) : r.outcome = "REJECT")
              => /\ is_terminated(proc[targets[i]])
                 /\ call[i] \in {"pending", "false", "DeliveryFailed"}
                 /\ \A k \in 1..Len(out[i]) : out[i][k].outcome = "failed"
                 /\ Returned(i) => out[i] # <<>>)

\* The check found the target active, the target ended before its command was
\* received, and the call has returned false with a failure line echoed.
C31_Witness ==
    \E i \in Indices :
        /\ checked[i] = "active"
        /\ \E r \in RepliesTo(i) : r.outcome = "REJECT"
        /\ call[i] = "false"
        /\ is_terminated(proc[targets[i]])
        /\ out[i] # <<>>

\* C32: the graph of ownership (a workflow, its steps, the workflows attached
\* to them) has no cycle after any sequence of attach_workflow calls: no
\* workflow is beneath itself.
C32_NoOwnershipCycle == \A w \in Workflows : w \notin Descendants(w)

\* C33: after any sequence of attach_workflow calls every workflow is attached
\* to at most one step, and no call of get_report, append_to_report or
\* clear_report fails for finding more than one parent step.
C33_AtMostOneParentStep ==
    /\ \A w \in Workflows : Cardinality(parent_workflow_step(steps, w)) <= 1
    /\ ret # "MultipleObjectsReturned"

\* C34: FINISHED is absorbing for a workflow: once kill has set the status of a
\* workflow to FINISHED, no call of next, get_step, attach_calculation or
\* attach_workflow (and no later kill) gives it another status.
C34_FinishedIsAbsorbing ==
    [][\A w \in Workflows : wstatus[w] = "FINISHED" => wstatus'[w] = "FINISHED"]_vars

\* C35: a line appended through a workflow n is still among the lines
\* get_report(n) returns after whatever call comes next, unless that call is a
\* clear_report: an append_to_report or an attach_workflow on any workflow,
\* one that attaches n or the root of n under another workflow included.
C35_AppendedLineStays ==
    [][(/\ ReportCalled("append_to_report")
        /\ ret = "none"
        /\ IsLine(rlog[1].text)
        /\ ~(rlog' # <<>> /\ rlog'[1].op = "clear_report"))
          => LET got == get_report(steps', report', rlog[1].wf, 1)
             IN  /\ got.err = "none"
                 /\ rlog[1].text \in LinesOf(got.out)]_vars

\* The links of ownership as a graph: <<w, c>> when c is attached to a step of w.
ChildLinks(st) == UNION {{<<id[1], sub>> : sub \in Step(st, id).subs} : id \in AllSteps(st)}

\* C36: kill changes only the states of calculations and the statuses of
\* workflows: the steps of every workflow, with their names, successors,
\* calculations and sub-workflows, every parent link and every report are after
\* a kill what they were before it, so that get_report of every workflow and
\* the subtree listing from the killed workflow give what they gave before.
C36_KillWritesOnlyStates ==
    [][klog' # <<>>
         => /\ steps' = steps
            /\ report' = report
            /\ DOMAIN wstatus' = DOMAIN wstatus
            /\ \A pk \in DOMAIN proc : proc'[pk].exit_status = proc[pk].exit_status
            /\ \A w \in Workflows :
                  /\ parent_workflow_step(steps', w) = parent_workflow_step(steps, w)
                  /\ get_report(steps', report', w, 1) = get_report(steps, report, w, 1)
            /\ ChildLinks(steps') = ChildLinks(steps)
            /\ \A desc \in BOOLEAN :
                  get_subtree(ChildLinks(steps'), desc, klog'[1].id[1], 0)
                    = get_subtree(ChildLinks(steps), desc, klog'[1].id[1], 0)]_vars

\* A kill has just been made of a workflow with a report, whose RUNNING start
\* step has a sub-workflow, now FINISHED.
C36_Witness ==
    /\ Killed
    /\ ret = "none"
    /\ report[KillRoot] # NoReport
    /\ \E id \in AllSteps(steps) :
          /\ id[1] = KillRoot
          /\ IsRunning(id)
          /\ Step(steps, id).subs \ {KillRoot} # {}
          /\ wstatus[CHOOSE sub \in Step(steps, id).subs \ {KillRoot} : TRUE] = "FINISHED"

\* C37: on an acyclic graph of calls the listing get_subtree(pk) returns holds
\* every node that can be reached from pk, and each of them once, also a node
\* that two nodes have called.
C37_EachNodeListedOnce ==
    Listed
       => LET T == listing.tree
          IN  /\ {T[i][1] : i \in 1..Len(T)} = Reach(listing.links, {listing.pk}, MaxNodes)
              /\ \A i, j \in 1..Len(T) : T[i][1] = T[j][1] => i = j

\* ---- work_report: properties --------------------------------------------------------

\* The messages echoed for the argument at position i.
MessagesOf(i) ==
    {k \in 1..Len(reporting.echoed) :
        reporting.echoed[k].arg = i /\ reporting.echoed[k].text = "message"}

\* C38: with the option max_depth = m given, for any m >= 0, every message
\* that is printed is one of a node listed at a depth below m.
C38_MaxDepthLimitsLevels ==
    (reporting # <<>> /\ reporting.max_depth # NoMaxDepth)
       => \A k \in 1..Len(reporting.echoed) :
             reporting.echoed[k].text = "message"
                => reporting.echoed[k].depth < reporting.max_depth

\* C39: when work_report has ended, every calculation of its argument list was
\* handled: for each there are its messages, or the line that says there are
\* none, also for a calculation that comes after one without messages.
C39_EveryCalculationReported ==
    (reporting # <<>> /\ reporting.pc = "done")
       => \A i \in 1..Len(reporting.calculations) :
             \/ MessagesOf(i) # {}
             \/ \E k \in 1..Len(reporting.echoed) :
                   /\ reporting.echoed[k].arg = i
                   /\ reporting.echoed[k].text = NoLogMessages

====
